---- MODULE Spec2Model ----
(***************************************************************************)
(* DECY: a catalog of AI tools (tools.json), a discovery pipeline that     *)
(* admits new tools into it (services/scraper.js), a recommendation engine *)
(* that answers queries from it (services/recommendation.js), the intent   *)
(* matcher (services/intelligence.js) and the conversation policy.         *)
(*                                                                         *)
(* JavaScript strings are modelled as sequences of one-character strings,  *)
(* so that includes, split, trim and toLowerCase are computed, not         *)
(* assumed.  Category keys, which the code only uses as object keys, are   *)
(* TLA+ strings.                                                           *)
(***************************************************************************)
EXTENDS Integers, Sequences, FiniteSets, TLC

VARIABLES
    toolsFile,      \* data/tools.json: the persisted catalog document
    discovered,     \* data/discovered.json: the discovery log
    engineTools,    \* RecommendationEngine.tools: the catalog the engine loaded
    groqKey,        \* GROQ_API_KEY is set: ToolScraper.groq and the engine's groq
    geminiKey,      \* GEMINI_API_KEY is set and is not the placeholder
    disk,           \* how a failing fs.writeFileSync leaves the file
    logFile,        \* whether data/discovered.json can be read and written
    task,           \* the discovery operations in flight, one per request slot
    commits,        \* history: number of successful addToolToDatabase commits
    rec,            \* the last request, when it was one to /api/recommend, and its outcome
    cat,            \* the last categorizeWithAI call observed: its input, the completion, its result
    history,        \* conversation: the client-carried history
    chat,           \* conversation: the outcome of the last handleChat call
    query,          \* intent matcher: the last query analysed
    intent          \* intent matcher: the result of analyzeIntent for it

vars == <<toolsFile, discovered, engineTools, groqKey, geminiKey, disk, logFile,
          task, commits, rec, cat, history, chat, query, intent>>

discoveryVars == <<toolsFile, discovered, engineTools, task, commits, rec>>
chatVars == <<history, chat>>
intentVars == <<query, intent>>

(***************************************************************************)
(* JavaScript strings                                                      *)
(***************************************************************************)

\* undefined / null where a string is expected (no string equals it: every
\* element of a string is a single character)
Undefined == <<"undefined">>

UpperCase == <<"A","B","C","D","E","F","G","H","I","J","K","L","M",
               "N","O","P","Q","R","S","T","U","V","W","X","Y","Z">>
LowerCase == <<"a","b","c","d","e","f","g","h","i","j","k","l","m",
               "n","o","p","q","r","s","t","u","v","w","x","y","z">>

\* String.prototype.toLowerCase, one character
lowerChar(c) ==
    IF \E i \in 1..26 : UpperCase[i] = c
    THEN LowerCase[CHOOSE i \in 1..26 : UpperCase[i] = c]
    ELSE c

toLowerCase(s) == [i \in 1..Len(s) |-> lowerChar(s[i])]

\* String.prototype.includes
includes(s, t) ==
    \E i \in 0..(Len(s) - Len(t)) : SubSeq(s, i + 1, i + Len(t)) = t

isSpace(c) == c = " "

\* String.prototype.trim
trim(s) ==
    IF \A i \in 1..Len(s) : isSpace(s[i]) THEN <<>>
    ELSE LET a == CHOOSE i \in 1..Len(s) :
                    ~isSpace(s[i]) /\ \A j \in 1..(i - 1) : isSpace(s[j])
             b == CHOOSE i \in 1..Len(s) :
                    ~isSpace(s[i]) /\ \A j \in (i + 1)..Len(s) : isSpace(s[j])
         IN  SubSeq(s, a, b)

\* s.split(/\s+/): the pieces between maximal runs of white space; a leading
\* or trailing run leaves an empty piece, as in JavaScript
RECURSIVE splitWS(_)
splitWS(s) ==
    IF \A i \in 1..Len(s) : ~isSpace(s[i]) THEN <<s>>
    ELSE LET a == CHOOSE i \in 1..Len(s) :
                    isSpace(s[i]) /\ \A j \in 1..(i - 1) : ~isSpace(s[j])
             b == CHOOSE k \in a..Len(s) :
                    /\ \A j \in a..k : isSpace(s[j])
                    /\ (k = Len(s) \/ ~isSpace(s[k + 1]))
         IN  <<SubSeq(s, 1, a - 1)>> \o splitWS(SubSeq(s, b + 1, Len(s)))

\* s.split(/[-|]/)[0]: the text before the first separator (the en dash of
\* the source's character class is not in the model's alphabet)
firstPiece(s) ==
    IF \A i \in 1..Len(s) : s[i] \notin {"-", "|"} THEN s
    ELSE LET a == CHOOSE i \in 1..Len(s) :
                    s[i] \in {"-", "|"} /\ \A j \in 1..(i - 1) : s[j] \notin {"-", "|"}
         IN  SubSeq(s, 1, a - 1)

\* s.replace(/\s+/g, '')
removeWS(s) == SelectSeq(s, LAMBDA c : ~isSpace(c))

\* Array.prototype.includes on a sequence
contains(seq, x) == \E i \in 1..Len(seq) : seq[i] = x

Range(seq) == {seq[i] : i \in 1..Len(seq)}

RECURSIVE SumLens(_, _)
SumLens(f, keys) ==
    IF keys = {} THEN 0
    ELSE LET k == CHOOSE x \in keys : TRUE
         IN  Len(f[k]) + SumLens(f, keys \ {k})
(***************************************************************************)
(* The catalog document (data/tools.json)                                  *)
(***************************************************************************)

\* The category keys of the catalog document.  Discovery never adds or
\* removes a category; a category's name and keywords never change.
CatKeys == {"coding_assistance", "design"}

\* Property names every JavaScript object inherits from Object.prototype:
\* categories[k] is truthy for them although k is no category.
ProtoKeys == {"constructor"}

CatKeywords(k) ==
    IF k = "design" THEN << <<"d","e","s","i","g","n">>, <<"l","o","g","o">> >>
    ELSE << <<"c","o","d","e">> >>

\* pricing: {free, premium}; defined = FALSE is a tool entry without the field
Pricing(f, p) == [defined |-> TRUE, free |-> f, premium |-> p]
NoPricing == [defined |-> FALSE, free |-> FALSE, premium |-> Undefined]

ToolEntry(id, name, bestFor, pricing, ease) ==
    [id |-> id, name |-> name, bestFor |-> bestFor, pricing |-> pricing,
     ease |-> ease]

chatgpt == ToolEntry(<<"c","h","a","t","g","p","t">>, <<"C","h","a","t","G","P","T">>,
                     <<"c","h","a","t">>, Pricing(TRUE, <<"$","2","0">>), 5)
cursor == ToolEntry(<<"c","u","r","s","o","r">>, <<"C","u","r","s","o","r">>,
                    <<"e","d","i","t","o","r">>, Pricing(FALSE, <<"$","2","0">>), 4)
canva == ToolEntry(<<"c","a","n","v","a">>, <<"C","a","n","v","a">>,
                   <<"p","o","s","t","e","r","s">>, Pricing(TRUE, Undefined), 5)

\* The tool lists of the document the process starts with
InitialCategories ==
    [k \in CatKeys |-> IF k = "design" THEN <<canva>> ELSE <<chatgpt, cursor>>]

AllTools(data) ==
    UNION {Range(data.categories[k]) : k \in CatKeys}

(***************************************************************************)
(* ToolScraper (services/scraper.js)                                       *)
(***************************************************************************)

\* fs.writeFileSync opens the file with flag 'w', which truncates it, and
\* then writes: a write that fails after the open (no space left, I/O
\* error) leaves a truncated document (disk = "tears"), one that fails at
\* the open (no permission, read-only file system) leaves the document as
\* it was (disk = "refuses").
\*
\* The truncated document: JSON.parse throws a SyntaxError on it
Torn == [categories |-> [k \in CatKeys |-> <<>>], totalTools |-> -1]

\* getExistingToolIds: every id and every lower-cased name; JSON.parse
\* throws on a document that does not parse, tool.name.toLowerCase() throws
\* a TypeError on an entry that has no name
getExistingToolIds(data) ==
    IF data = Torn \/ \E tl \in AllTools(data) : tl.name = Undefined
    THEN [threw |-> TRUE, ids |-> {}]
    ELSE [threw |-> FALSE,
          ids |-> {tl.id : tl \in AllTools(data)}
                  \cup {toLowerCase(tl.name) : tl \in AllTools(data)}]

\* JavaScript's a || b on strings: undefined and '' are falsy
OrElse(a, b) == IF a = Undefined \/ a = <<>> THEN b ELSE a

\* s.toLowerCase().replace(/[^a-z0-9]/g, '_').replace(/_+/g, '_')
slug(s) ==
    LET low == toLowerCase(s)
        sub == [i \in 1..Len(low) |->
                   IF low[i] \in Range(LowerCase) \cup
                        {"0","1","2","3","4","5","6","7","8","9"}
                   THEN low[i] ELSE "_"]
        keep == {i \in 1..Len(sub) : ~(sub[i] = "_" /\ i > 1 /\ sub[i - 1] = "_")}
        F[n \in 0..Len(sub)] ==
            IF n = 0 THEN <<>>
            ELSE IF n \in keep THEN Append(F[n - 1], sub[n]) ELSE F[n - 1]
    IN  F[Len(sub)]

\* the keyword table of basicCategorize, in table order
categoryKeywords == <<
    [cat |-> "app_building", keywords |-> <<
        <<"a","p","p">>,
        <<"w","e","b","s","i","t","e">>,
        <<"b","u","i","l","d">>,
        <<"d","e","p","l","o","y">>,
        <<"f","u","l","l","-","s","t","a","c","k">>,
        <<"n","o","-","c","o","d","e">>>>],
    [cat |-> "image_generation", keywords |-> <<
        <<"i","m","a","g","e">>,
        <<"p","i","c","t","u","r","e">>,
        <<"g","e","n","e","r","a","t","e">>,
        <<"a","r","t">>,
        <<"i","l","l","u","s","t","r","a","t","i","o","n">>>>],
    [cat |-> "image_editing", keywords |-> <<
        <<"e","d","i","t">>,
        <<"p","h","o","t","o">>,
        <<"r","e","t","o","u","c","h">>,
        <<"b","a","c","k","g","r","o","u","n","d">>,
        <<"e","n","h","a","n","c","e">>>>],
    [cat |-> "video_creation", keywords |-> <<
        <<"v","i","d","e","o">>,
        <<"a","n","i","m","a","t","i","o","n">>,
        <<"c","l","i","p">>,
        <<"m","o","v","i","e">>,
        <<"r","e","e","l">>>>],
    [cat |-> "coding_assistance", keywords |-> <<
        <<"c","o","d","e">>,
        <<"p","r","o","g","r","a","m","m","i","n","g">>,
        <<"d","e","v","e","l","o","p","e","r">>,
        <<"i","d","e">>,
        <<"d","e","b","u","g">>>>],
    [cat |-> "writing", keywords |-> <<
        <<"w","r","i","t","e">>,
        <<"c","o","n","t","e","n","t">>,
        <<"b","l","o","g">>,
        <<"a","r","t","i","c","l","e">>,
        <<"c","o","p","y">>>>],
    [cat |-> "design", keywords |-> <<
        <<"d","e","s","i","g","n">>,
        <<"g","r","a","p","h","i","c">>,
        <<"l","o","g","o">>,
        <<"u","i">>,
        <<"t","e","m","p","l","a","t","e">>>>],
    [cat |-> "presentation", keywords |-> <<
        <<"p","r","e","s","e","n","t","a","t","i","o","n">>,
        <<"s","l","i","d","e">>,
        <<"d","e","c","k">>,
        <<"p","i","t","c","h">>>>],
    [cat |-> "audio", keywords |-> <<
        <<"a","u","d","i","o">>,
        <<"m","u","s","i","c">>,
        <<"v","o","i","c","e">>,
        <<"s","o","u","n","d">>,
        <<"s","p","e","e","c","h">>>>]>>

\* JSON.stringify(toolData).toLowerCase(): the values of the fields, each
\* closed by a quote (no key of the object contains a keyword of the table)
stringify(toolData) ==
    LET val(v) == IF v = Undefined THEN <<>> ELSE v \o <<"\"">>
    IN  toLowerCase(val(toolData.name) \o val(toolData.title)
                    \o val(toolData.description) \o val(toolData.url))

keywordScore(text, keywords) ==
    Cardinality({i \in 1..Len(keywords) : includes(text, keywords[i])})

\* a variant that keeps the last category of the highest count
basicCategorizeLastOnTie(toolData) ==
    LET text == stringify(toolData)
        score(i) == keywordScore(text, categoryKeywords[i].keywords)
        best == {i \in 1..Len(categoryKeywords) :
                    /\ score(i) > 0
                    /\ \A j \in 1..Len(categoryKeywords) :
                          /\ score(j) <= score(i)
                          /\ (j > i => score(j) < score(i))}
    IN  [isAITool |-> TRUE,
         id |-> slug(OrElse(toolData.name, <<"u","n","k","n","o","w","n">>)),
         name |-> OrElse(toolData.name, OrElse(toolData.title,
                     <<"U","n","k","n","o","w","n"," ","T","o","o","l">>)),
         bestFor |-> OrElse(toolData.description, <<"A","I"," ","t","o","o","l">>),
         category |-> IF best = {} THEN "coding_assistance"
                      ELSE categoryKeywords[CHOOSE i \in best : TRUE].cat,
         pricing |-> Pricing(TRUE, Undefined),
         ease |-> 3]
\* basicCategorize: the first category of the table with the highest
\* keyword count, 'coding_assistance' when nothing hits; conservative
\* defaults for the rest
basicCategorize(toolData) ==
    LET text == stringify(toolData)
        score(i) == keywordScore(text, categoryKeywords[i].keywords)
        best == {i \in 1..Len(categoryKeywords) :
                    /\ score(i) > 0
                    /\ \A j \in 1..Len(categoryKeywords) :
                          /\ score(j) <= score(i)
                          /\ (j < i => score(j) < score(i))}
    IN  [isAITool |-> TRUE,
         id |-> slug(OrElse(toolData.name, <<"u","n","k","n","o","w","n">>)),
         name |-> OrElse(toolData.name, OrElse(toolData.title,
                     <<"U","n","k","n","o","w","n"," ","T","o","o","l">>)),
         bestFor |-> OrElse(toolData.description, <<"A","I"," ","t","o","o","l">>),
         category |-> IF best = {} THEN "coding_assistance"
                      ELSE categoryKeywords[CHOOSE i \in best : TRUE].cat,
         pricing |-> Pricing(TRUE, Undefined),
         ease |-> 3]

\* a variant that adds one to the stored count instead of recomputing it
addToolToDatabaseIncrementing(data, tool, writeOk) ==
    IF tool.category \notin CatKeys
           \/ \E i \in 1..Len(data.categories[tool.category]) :
                 data.categories[tool.category][i].id = tool.id
           \/ ~writeOk
    THEN [added |-> FALSE, file |-> data]
    ELSE [added |-> TRUE,
          file |-> [categories |->
                        [data.categories EXCEPT ![tool.category] =
                            Append(@, ToolEntry(tool.id, tool.name, tool.bestFor,
                                                tool.pricing, tool.ease))],
                    totalTools |-> data.totalTools + 1]]

\* addToolToDatabase: read the document, reject an unknown category or an id
\* already in that category's list, append, recompute metadata.totalTools,
\* write the whole document.  Any exception, the failed write included, is
\* caught and reported as false.
addToolToDatabase(data, tool, writeOk) ==
    IF data = Torn
    THEN \* JSON.parse throws inside the try block
         [added |-> FALSE, file |-> data]
    ELSE IF tool.category \notin CatKeys
    THEN \* undefined (skip), or an inherited property whose .tools is
         \* undefined: the TypeError is caught
         [added |-> FALSE, file |-> data]
    ELSE IF \E i \in 1..Len(data.categories[tool.category]) :
               data.categories[tool.category][i].id = tool.id
    THEN [added |-> FALSE, file |-> data]
    ELSE LET toolEntry == ToolEntry(tool.id, tool.name, tool.bestFor,
                                    tool.pricing, tool.ease)
             cats == [data.categories EXCEPT
                        ![tool.category] = Append(@, toolEntry)]
         IN  IF writeOk
             THEN [added |-> TRUE,
                   file |-> [categories |-> cats,
                             totalTools |-> SumLens(cats, CatKeys)]]
             ELSE [added |-> FALSE,
                   file |-> IF disk = "tears" THEN Torn ELSE data]

\* logDiscovery: read the log, append a Discovery Record, write the log.
\* Whatever is thrown (the file is gone or is not JSON, the write fails) is
\* caught and printed: the log stays as it was.
logDiscovery(log, tool) ==
    IF logFile = "ok"
    THEN Append(log, [id |-> tool.id, name |-> tool.name, category |-> tool.category])
    ELSE log
(***************************************************************************)
(* The world outside: the web pages, the directory listing, the            *)
(* classification capability                                               *)
(***************************************************************************)

ToolData(name, title, description, url, sourceUrl) ==
    [name |-> name, title |-> title, description |-> description,
     url |-> url, sourceUrl |-> sourceUrl]

KiteUrl == <<"h","t","t","p","s",":","/","/","k","i","t","e",".","c","o","m">>
BoltUrl == <<"h","t","t","p","s",":","/","/","b","o","l","t",".","a","i">>
CanvaUrl == <<"h","t","t","p","s",":","/","/","c","a","n","v","a",".","c","o","m">>
LookaUrl == <<"h","t","t","p","s",":","/","/","l","o","o","k","a",".","c","o","m">>

\* The pages that exist: what analyzeToolUrl extracts from each
Web == {ToolData(Undefined, <<"K","i","t","e">>, <<"c","o","d","e"," ","i","d","e">>, KiteUrl, Undefined),
        ToolData(Undefined, <<"B","o","l","t"," ","-"," ","d","e","s","i","g","n">>, <<"l","o","g","o"," ","d","e","s","i","g","n">>, BoltUrl, Undefined),
        ToolData(Undefined, <<"C","a","n","v","a"," ","|"," ","p","o","s","t","e","r","s">>, <<"d","e","s","i","g","n">>, CanvaUrl, Undefined),
        ToolData(Undefined, <<"L","o","o","k","a">>, <<"l","o","g","o"," ","m","a","k","e","r">>, LookaUrl, Undefined)}

\* The URLs a caller passes to discoverToolByUrl
Urls == {KiteUrl, BoltUrl, CanvaUrl}

\* The names a caller passes to discoverToolByName
Names == {<<"B","o","l","t">>, <<"C","a","n","v","a">>}

\* analyzeToolUrl: the extracted page, or null when the request fails
analyzeToolUrl(url, fetchOk) ==
    IF fetchOk /\ \E p \in Web : p.url = url
    THEN [ok |-> TRUE, data |-> CHOOSE p \in Web : p.url = url]
    ELSE [ok |-> FALSE,
          data |-> ToolData(Undefined, Undefined, Undefined, Undefined, Undefined)]

\* What scrapeFromSearch extracts from the directory page when it answers
Listing == <<
    ToolData(<<"C","a","n","v","a">>, Undefined, <<>>, Undefined, Undefined),
    ToolData(<<"K","i","t","e">>, Undefined, <<"c","o","d","e"," ","i","d","e">>, Undefined, KiteUrl),
    ToolData(<<"B","o","l","t">>, Undefined, <<"l","o","g","o"," ","d","e","s","i","g","n">>, Undefined, Undefined)>>

\* What the completion service may answer to categorizeWithAI: it is a black
\* box, so every field is its free choice.  The answers considered: a complete
\* entry, an entry that is not free and names no premium plan, an entry
\* without pricing, an entry without a name, an id the catalog already holds
\* (for the same and for another category), a category the catalog lacks.
ClassTool(id, name, category, pricing) ==
    [isAITool |-> TRUE, id |-> id, name |-> name, bestFor |-> <<"n","e","w">>,
     category |-> category, pricing |-> pricing, ease |-> 3]

ClassTools ==
    {ClassTool(<<"b","o","l","t">>, <<"B","o","l","t">>, "design", Pricing(TRUE, Undefined)),
     ClassTool(<<"b","o","l","t">>, <<"B","o","l","t">>, "coding_assistance", Pricing(TRUE, Undefined)),
     ClassTool(<<"b","o","l","t">>, <<"B","o","l","t">>, "design", Pricing(FALSE, Undefined)),
     ClassTool(<<"b","o","l","t">>, <<"B","o","l","t">>, "design", NoPricing),
     ClassTool(<<"b","o","l","t">>, Undefined, "design", Pricing(TRUE, Undefined)),
     ClassTool(<<"b","o","l","t">>, <<"B","o","l","t">>, "audio", Pricing(TRUE, Undefined)),
     ClassTool(<<"c","a","n","v","a">>, <<"C","a","n","v","a">>, "design", Pricing(TRUE, Undefined)),
     ClassTool(<<"c","a","n","v","a">>, <<"C","a","n","v","a">>, "coding_assistance", Pricing(TRUE, Undefined))}

ClassifierOutcomes ==
    {[kind |-> k, tool |-> CHOOSE c \in ClassTools : TRUE] :
        k \in {"throws", "notAITool"}}
    \cup {[kind |-> "tool", tool |-> c] : c \in ClassTools}

(***************************************************************************)
(* The discovery operations.  An operation runs without interruption       *)
(* between two awaits of an external call (page fetch, completion call,    *)
(* the batch's delay); fs.readFileSync and fs.writeFileSync are            *)
(* synchronous.                                                            *)
(*                                                                         *)
(* w = [tk, file, log, n]: the operation's record, the catalog document,   *)
(* the discovery log and the number of commits, as a run leaves them.      *)
(***************************************************************************)

Tasks == {"r1", "r2"}

MaxCommits == 2

Result(success, error, tool) ==
    [success |-> success, error |-> error, threw |-> FALSE, tool |-> tool]
Threw == [success |-> FALSE, error |-> "TypeError", threw |-> TRUE,
          tool |-> Undefined]
NoResult == Result(FALSE, "none", Undefined)

NoCounts == [discovered |-> 0, added |-> 0, skipped |-> 0, errors |-> 0]

\* what categorizeWithAI returned to the operation, when it was reached
NoClass == [kind |-> "none", id |-> Undefined, category |-> ""]
Classified(tool) == [kind |-> "tool", id |-> tool.id, category |-> tool.category]
NotAITool == [kind |-> "notAITool", id |-> Undefined, category |-> ""]

\* before, alone: the documents when the operation was called, and whether
\* no other operation has been in flight since.  prevUrl: the URL of the
\* slot's previous operation when that was a successful discoverToolByUrl.
\* cls: what categorizeWithAI returned to discoverToolByUrl.
IdleTask ==
    [op |-> "none", pc |-> "idle", arg |-> Undefined, url |-> Undefined,
     idx |-> 0, ids |-> {}, detailed |-> FALSE, result |-> NoResult,
     counts |-> NoCounts, prevUrl |-> Undefined, cls |-> NoClass,
     before |-> [file |-> [categories |-> InitialCategories, totalTools |-> 0],
                 log |-> <<>>],
     alone |-> TRUE]

done(w, res) == [w EXCEPT !.tk.pc = "done", !.tk.result = res]

\* discoverToolByName's guesses, in order
possibleUrls(toolName) ==
    LET host == removeWS(toLowerCase(toolName))
        https == <<"h","t","t","p","s",":","/","/">>
    IN  << https \o host \o <<".","c","o","m">>,
           https \o host \o <<".","a","i">>,
           https \o host \o <<".","i","o">>,
           https \o <<"w","w","w",".">> \o host \o <<".","c","o","m">> >>

RECURSIVE returnFromUrl(_, _)
RECURSIVE startUrl(_, _, _)

\* discoverToolByUrl up to its first await: the snapshot of the existing ids,
\* then the page request
startUrl(w, url, i) ==
    LET e == getExistingToolIds(w.file)
    IN  IF e.threw THEN returnFromUrl([w EXCEPT !.tk.idx = i], Threw)
        ELSE [w EXCEPT !.tk.pc = "fetch", !.tk.url = url, !.tk.idx = i,
                       !.tk.ids = e.ids]

\* a variant of discoverToolByName's loop that does not return at the first
\* success
returnFromUrlNotStopping(w, res) ==
    IF w.tk.op = "url" THEN done(w, res)
    ELSE IF w.tk.idx < Len(possibleUrls(w.tk.arg))
    THEN startUrl(w, possibleUrls(w.tk.arg)[w.tk.idx + 1], w.tk.idx + 1)
    ELSE done(w, res)

\* where discoverToolByUrl's result goes: to the caller of /api/discover/url,
\* or to discoverToolByName's loop, which returns a success, and tries its
\* next guess after a failure or an exception
returnFromUrl(w, res) ==
    IF w.tk.op = "url" THEN done(w, res)
    ELSE IF res.success THEN done(w, res)
    ELSE IF w.tk.idx < Len(possibleUrls(w.tk.arg))
    THEN startUrl(w, possibleUrls(w.tk.arg)[w.tk.idx + 1], w.tk.idx + 1)
    ELSE done(w, Result(FALSE, "Could not find online", Undefined))

\* discoverToolByUrl, lines 338-347: commit, log, report
commitUrl(w, categorized, writeOk) ==
    LET r == addToolToDatabase(w.file, categorized, writeOk)
        wc == [w EXCEPT !.tk.cls = Classified(categorized)]
    IN  IF r.added
        THEN returnFromUrl([wc EXCEPT !.file = r.file,
                                      !.log = logDiscovery(w.log, categorized),
                                      !.n = w.n + 1],
                           Result(TRUE, "none", categorized.id))
        ELSE returnFromUrl([wc EXCEPT !.file = r.file],
                           Result(FALSE, "Failed to add to database", Undefined))

\* categorizeWithAI when this.groq is null, or its catch block
categorizeFallback(toolData) == basicCategorize(toolData)

\* a variant that asks for the classification without the name check
afterFetchUnchecked(w, fetchOk, writeOk) ==
    LET raw == analyzeToolUrl(w.tk.url, fetchOk)
    IN  IF ~raw.ok
        THEN returnFromUrl(w, Result(FALSE, "Could not access the website", Undefined))
        ELSE IF groqKey THEN [w EXCEPT !.tk.pc = "classify"]
        ELSE commitUrl(w, categorizeFallback(raw.data), writeOk)
\* discoverToolByUrl after the page request: the name check on the title,
\* then the classification
afterFetch(w, fetchOk, writeOk) ==
    LET raw == analyzeToolUrl(w.tk.url, fetchOk)
        toolName == trim(firstPiece(toLowerCase(OrElse(raw.data.title, <<>>))))
    IN  IF ~raw.ok
        THEN returnFromUrl(w, Result(FALSE, "Could not access the website", Undefined))
        ELSE IF toolName \in w.tk.ids
        THEN returnFromUrl(w, Result(FALSE, "Tool already exists in database", Undefined))
        ELSE IF groqKey THEN [w EXCEPT !.tk.pc = "classify"]
        ELSE commitUrl(w, categorizeFallback(raw.data), writeOk)

\* discoverToolByUrl after the completion call
afterClassify(w, out, writeOk) ==
    IF out.kind = "throws"
    THEN commitUrl(w, categorizeFallback(analyzeToolUrl(w.tk.url, TRUE).data), writeOk)
    ELSE IF out.kind = "notAITool"
    THEN returnFromUrl([w EXCEPT !.tk.cls = NotAITool],
                       Result(FALSE, "Not identified as an AI tool", Undefined))
    ELSE commitUrl(w, out.tool, writeOk)
\* runFullScrape, the end of one candidate's try block: the commit, the log,
\* the counters, and the additions to the batch's id set.  categorized.name
\* .toLowerCase() throws on an entry without a name: the loop's catch counts
\* an error and the delay is skipped.
RECURSIVE scrapeFrom(_, _, _)

\* a variant without the loop's try block: a commit that fails or throws
\* ends the batch
scrapeCommitAborting(w, categorized, writeOk) ==
    LET r == addToolToDatabase(w.file, categorized, writeOk)
    IN  IF ~r.added \/ categorized.name = Undefined
        THEN done([w EXCEPT !.file = r.file], Threw)
        ELSE [w EXCEPT !.file = r.file,
                       !.log = logDiscovery(w.log, categorized),
                       !.n = w.n + 1,
                       !.tk.counts.added = @ + 1,
                       !.tk.pc = "sleep",
                       !.tk.ids = @ \cup {categorized.id,
                                          toLowerCase(categorized.name)}]

scrapeCommit(w, categorized, writeOk) ==
    LET r == addToolToDatabase(w.file, categorized, writeOk)
        w2 == [w EXCEPT !.file = r.file,
                        !.log = logDiscovery(w.log, categorized),
                        !.n = w.n + 1,
                        !.tk.counts.added = @ + 1]
    IN  IF ~r.added THEN [w EXCEPT !.file = r.file, !.tk.pc = "sleep"]
        ELSE IF categorized.name = Undefined
        THEN scrapeFrom([w2 EXCEPT !.tk.counts.errors = @ + 1,
                                   !.tk.ids = @ \cup {categorized.id}],
                        w.tk.idx + 1, writeOk)
        ELSE [w2 EXCEPT !.tk.pc = "sleep",
                        !.tk.ids = @ \cup {categorized.id,
                                           toLowerCase(categorized.name)}]

\* the candidate's data: the listing's entry, overlaid with the page's
\* fields when the page was fetched
scrapeToolData(raw, detailed) ==
    IF detailed
    THEN LET d == analyzeToolUrl(raw.sourceUrl, TRUE).data
         IN  ToolData(raw.name, d.title, d.description, d.url, raw.sourceUrl)
    ELSE raw

scrapeCategorize(w, writeOk) ==
    IF groqKey THEN [w EXCEPT !.tk.pc = "sclassify"]
    ELSE scrapeCommit(w, categorizeFallback(
                             scrapeToolData(Listing[w.tk.idx], w.tk.detailed)),
                      writeOk)

\* runFullScrape's loop from candidate i, up to its next await
scrapeFrom(w, i, writeOk) ==
    IF i > w.tk.counts.discovered THEN done([w EXCEPT !.tk.idx = i], NoResult)
    ELSE IF toLowerCase(Listing[i].name) \in w.tk.ids
    THEN scrapeFrom([w EXCEPT !.tk.counts.skipped = @ + 1], i + 1, writeOk)
    ELSE IF Listing[i].sourceUrl # Undefined
    THEN [w EXCEPT !.tk.pc = "sfetch", !.tk.idx = i, !.tk.detailed = FALSE]
    ELSE scrapeCategorize([w EXCEPT !.tk.idx = i, !.tk.detailed = FALSE], writeOk)

scrapeAfterClassify(w, out, writeOk) ==
    IF out.kind = "throws"
    THEN scrapeCommit(w, categorizeFallback(
                             scrapeToolData(Listing[w.tk.idx], w.tk.detailed)),
                      writeOk)
    ELSE IF out.kind = "notAITool" THEN [w EXCEPT !.tk.pc = "sleep"]
    ELSE scrapeCommit(w, out.tool, writeOk)

\* rec when the last request was not one to /api/recommend
NoRec == [called |-> FALSE]

(***************************************************************************)
(* Actions of the discovery pipeline                                       *)
(***************************************************************************)

\* a variant in which an operation works on the documents as they were when
\* it was called
WorldAtCall(t) ==
    [tk |-> task[t], file |-> task[t].before.file, log |-> task[t].before.log,
     n |-> commits]

World(t) == [tk |-> task[t], file |-> toolsFile, log |-> discovered, n |-> commits]

Free(t) == task[t].pc \in {"idle", "done"}

\* a request arrives in slot t: the other operations in flight are no
\* longer alone
Begin(t, op, arg) ==
    [task EXCEPT
        ![t] = [IdleTask EXCEPT
                  !.op = op, !.arg = arg,
                  !.prevUrl = IF /\ task[t].pc = "done" /\ task[t].op = "url"
                                 /\ task[t].result.success
                              THEN task[t].arg ELSE Undefined,
                  !.before = [file |-> toolsFile, log |-> discovered],
                  !.alone = \A u \in Tasks \ {t} : Free(u)]]

Others(t, tk) ==
    [u \in Tasks |-> IF u = t THEN tk
                     ELSE IF Free(u) THEN task[u]
                     ELSE [task[u] EXCEPT !.alone = FALSE]]

\* the operation of slot t ran up to its next await, or to its end
Apply(t, w) ==
    /\ task' = [task EXCEPT ![t] = w.tk]
    /\ toolsFile' = w.file
    /\ discovered' = w.log
    /\ commits' = w.n

Start(t, w) ==
    /\ task' = Others(t, w.tk)
    /\ toolsFile' = w.file
    /\ discovered' = w.log
    /\ commits' = w.n

\* whether fs.writeFileSync succeeds; a run that awaits the completion
\* service before its commit writes nothing
WriteOutcomes == IF groqKey THEN {TRUE} ELSE BOOLEAN

\* POST /api/discover/url
CallDiscoverToolByUrl(t, url) ==
    /\ Free(t)
    /\ commits < MaxCommits
    /\ Start(t, startUrl([World(t) EXCEPT !.tk = Begin(t, "url", url)[t]], url, 1))
    /\ rec' = NoRec
    /\ UNCHANGED <<engineTools, groqKey, geminiKey, disk, logFile, cat, chatVars, intentVars>>

\* POST /api/discover/name: the name check against the existing ids, then
\* the first guess
CallDiscoverToolByName(t, toolName) ==
    /\ Free(t)
    /\ commits < MaxCommits
    /\ LET w == [World(t) EXCEPT !.tk = Begin(t, "name", toolName)[t]]
           e == getExistingToolIds(toolsFile)
       IN  Start(t, IF e.threw THEN done(w, Threw)
                    ELSE IF toLowerCase(toolName) \in e.ids
                    THEN done(w, Result(FALSE, "Tool already exists in database",
                                        Undefined))
                    ELSE startUrl(w, possibleUrls(toolName)[1], 1))
    /\ rec' = NoRec
    /\ UNCHANGED <<engineTools, groqKey, geminiKey, disk, logFile, cat, chatVars, intentVars>>

\* POST /api/discover/scrape: the snapshot of the existing ids, then the
\* request for the directory page
CallRunFullScrape(t) ==
    /\ Free(t)
    /\ commits < MaxCommits
    /\ LET w == [World(t) EXCEPT !.tk = Begin(t, "scrape", Undefined)[t]]
           e == getExistingToolIds(toolsFile)
       IN  Start(t, IF e.threw THEN done(w, Threw)
                    ELSE [w EXCEPT !.tk.pc = "listing", !.tk.ids = e.ids])
    /\ rec' = NoRec
    /\ UNCHANGED <<engineTools, groqKey, geminiKey, disk, logFile, cat, chatVars, intentVars>>

\* the page request of discoverToolByUrl answers or fails
FetchReturn(t) ==
    /\ task[t].pc = "fetch"
    /\ \E fetchOk \in BOOLEAN, writeOk \in WriteOutcomes :
          Apply(t, afterFetch(World(t), fetchOk, writeOk))
    /\ UNCHANGED <<engineTools, rec, groqKey, geminiKey, disk, logFile, cat, chatVars, intentVars>>

\* the completion call of categorizeWithAI answers or throws
ClassifyReturn(t) ==
    /\ task[t].pc = "classify"
    /\ \E out \in ClassifierOutcomes, writeOk \in BOOLEAN :
          Apply(t, afterClassify(World(t), out, writeOk))
    /\ UNCHANGED <<engineTools, rec, groqKey, geminiKey, disk, logFile, cat, chatVars, intentVars>>

\* scrapeFromSearch answers with the listing, or fails and yields no candidate
ListingReturn(t) ==
    /\ task[t].pc = "listing"
    /\ \E fetchOk \in BOOLEAN, writeOk \in WriteOutcomes :
          Apply(t, scrapeFrom(
                       [World(t) EXCEPT !.tk.counts.discovered =
                                           IF fetchOk THEN Len(Listing) ELSE 0],
                       1, writeOk))
    /\ UNCHANGED <<engineTools, rec, groqKey, geminiKey, disk, logFile, cat, chatVars, intentVars>>

\* the page request for a candidate of the batch answers or fails
ScrapeFetchReturn(t) ==
    /\ task[t].pc = "sfetch"
    /\ \E fetchOk \in BOOLEAN, writeOk \in WriteOutcomes :
          Apply(t, scrapeCategorize(
                       [World(t) EXCEPT !.tk.detailed =
                           analyzeToolUrl(Listing[task[t].idx].sourceUrl, fetchOk).ok],
                       writeOk))
    /\ UNCHANGED <<engineTools, rec, groqKey, geminiKey, disk, logFile, cat, chatVars, intentVars>>

\* the completion call for a candidate of the batch answers or throws
ScrapeClassifyReturn(t) ==
    /\ task[t].pc = "sclassify"
    /\ \E out \in ClassifierOutcomes, writeOk \in BOOLEAN :
          Apply(t, scrapeAfterClassify(World(t), out, writeOk))
    /\ UNCHANGED <<engineTools, rec, groqKey, geminiKey, disk, logFile, cat, chatVars, intentVars>>

\* the batch's delay between two candidates elapses
SleepReturn(t) ==
    /\ task[t].pc = "sleep"
    /\ \E writeOk \in WriteOutcomes :
          Apply(t, scrapeFrom(World(t), task[t].idx + 1, writeOk))
    /\ UNCHANGED <<engineTools, rec, groqKey, geminiKey, disk, logFile, cat, chatVars, intentVars>>
(***************************************************************************)
(* RecommendationEngine (services/recommendation.js)                       *)
(***************************************************************************)

\* the order in which Object.entries and for-in walk the document's
\* categories: the order of the keys in tools.json
CatOrder == <<"coding_assistance", "design">>

\* a tool of the catalog, with the key of the category that lists it
ToolsInOrder(data) ==
    LET F[n \in 0..Len(CatOrder)] ==
            IF n = 0 THEN <<>> ELSE F[n - 1] \o data.categories[CatOrder[n]]
    IN  F[Len(CatOrder)]

\* a variant without the cut
sliceAll(seq) == seq

\* slice(0, 3)
slice3(seq) == SubSeq(seq, 1, IF Len(seq) < 3 THEN Len(seq) ELSE 3)

\* (tool.ease || 3)
easeOr3(tool) == IF tool.ease = 0 THEN 3 ELSE tool.ease

\* sort((a, b) => (b.ease || 3) - (a.ease || 3)): stable, easiest first
RECURSIVE sortByEase(_)
sortByEase(seq) ==
    IF seq = <<>> THEN <<>>
    ELSE LET m == CHOOSE i \in 1..Len(seq) :
                    /\ \A j \in 1..Len(seq) : easeOr3(seq[j]) <= easeOr3(seq[i])
                    /\ \A j \in 1..(i - 1) : easeOr3(seq[j]) < easeOr3(seq[i])
         IN  <<seq[m]>> \o
             sortByEase(SubSeq(seq, 1, m - 1) \o SubSeq(seq, m + 1, Len(seq)))

\* what a recommendation call hands to its caller: a result object, or an
\* exception
RecResult(source, tools) == [threw |-> FALSE, source |-> source, tools |-> tools]
RecThrew == [threw |-> TRUE, source |-> "none", tools |-> <<>>]

\* findToolById: the first tool with that id, in the order of the categories
findToolById(data, toolId) ==
    LET all == ToolsInOrder(data)
        hits == {i \in 1..Len(all) : all[i].id = toolId}
    IN  IF hits = {} THEN <<>>
        ELSE <<all[CHOOSE i \in hits : \A j \in hits : i <= j]>>

\* getDefaultRecommendation: chatgpt, perplexity, canva, those that exist;
\* t.pricing.free throws on a tool without pricing when the budget is free
getDefaultRecommendation(data, budgetType) ==
    LET generalTools == findToolById(data, <<"c","h","a","t","g","p","t">>)
                        \o findToolById(data, <<"p","e","r","p","l","e","x","i","t","y">>)
                        \o findToolById(data, <<"c","a","n","v","a">>)
    IN  IF budgetType = "free"
           /\ \E i \in 1..Len(generalTools) : ~generalTools[i].pricing.defined
        THEN RecThrew
        ELSE RecResult("default",
                 slice3(SelectSeq(generalTools,
                            LAMBDA t : budgetType # "free" \/ t.pricing.free)))

\* a variant without the budget filter
topOfCategoryUnfiltered(tools, budgetType, source) ==
    RecResult(source, slice3(sortByEase(tools)))

\* the budget filter of getToolsFromCategory and getFallbackRecommendation,
\* the sort and the cut; tool.pricing.free throws on a tool without pricing
\* when the budget is free
topOfCategory(tools, budgetType, source) ==
    IF budgetType = "free" /\ \E i \in 1..Len(tools) : ~tools[i].pricing.defined
    THEN RecThrew
    ELSE RecResult(source,
             slice3(sortByEase(SelectSeq(tools,
                        LAMBDA t : budgetType = "free" => t.pricing.free = TRUE))))

\* the score getFallbackRecommendation gives a category
categoryScore(data, k, q) ==
    LET words == splitWS(q)
        kws == CatKeywords(k)
        tools == data.categories[k]
        kwScore(i) ==
            (IF includes(q, toLowerCase(kws[i])) THEN 10 ELSE 0)
            + 3 * Cardinality({j \in 1..Len(words) :
                      \/ includes(toLowerCase(kws[i]), words[j])
                      \/ includes(words[j], toLowerCase(kws[i]))})
        toolScore(i) ==
            (IF includes(q, toLowerCase(tools[i].name)) THEN 15 ELSE 0)
            + (IF includes(q, toLowerCase(tools[i].bestFor)) THEN 5 ELSE 0)
        S[n \in 0..Len(kws)] == IF n = 0 THEN 0 ELSE S[n - 1] + kwScore(n)
        U[n \in 0..Len(tools)] == IF n = 0 THEN 0 ELSE U[n - 1] + toolScore(n)
    IN  S[Len(kws)] + U[Len(tools)]

\* a variant that takes the last category of the highest score
bestCategoryKeyLast(data, q) ==
    LET score(i) == categoryScore(data, CatOrder[i], q)
        best == {i \in 1..Len(CatOrder) :
                    /\ score(i) > 0
                    /\ \A j \in 1..Len(CatOrder) :
                          /\ score(j) <= score(i)
                          /\ (j > i => score(j) < score(i))}
    IN  IF best = {} THEN "none" ELSE CatOrder[CHOOSE i \in best : TRUE]

\* sortedCategories[0] of getFallbackRecommendation: the categories that
\* score, in the order of the document, sorted by descending score (the
\* sort is stable): the first category of the highest score, "none" when
\* no category scores
bestCategoryKey(data, q) ==
    LET score(i) == categoryScore(data, CatOrder[i], q)
        best == {i \in 1..Len(CatOrder) :
                    /\ score(i) > 0
                    /\ \A j \in 1..Len(CatOrder) :
                          /\ score(j) <= score(i)
                          /\ (j < i => score(j) < score(i))}
    IN  IF best = {} THEN "none" ELSE CatOrder[CHOOSE i \in best : TRUE]

\* getFallbackRecommendation: tool.name.toLowerCase() throws on a tool
\* without a name, whatever its category; the best category is the first of
\* the highest score; none scoring, the default set
getFallbackRecommendation(data, userQuery, budgetType) ==
    LET bestCategory == bestCategoryKey(data, toLowerCase(userQuery))
    IN  IF \E tl \in AllTools(data) : tl.name = Undefined THEN RecThrew
        ELSE IF bestCategory = "none"
        THEN getDefaultRecommendation(data, budgetType)
        ELSE topOfCategory(data.categories[bestCategory], budgetType, "fallback")

\* getToolsFromCategory: categories[categoryKey] is an inherited property for
\* a key of Object.prototype, and its .tools is undefined
getToolsFromCategory(data, categoryKey, budgetType, userQuery) ==
    IF categoryKey \in ProtoKeys THEN RecThrew
    ELSE IF categoryKey \notin CatKeys
    THEN getFallbackRecommendation(data, userQuery, budgetType)
    ELSE topOfCategory(data.categories[categoryKey], budgetType, "ai_category")

\* enrichRecommendations: the tools named by the completion, in catalog
\* order; !tool.pricing.free throws on a named tool without pricing when the
\* budget is free
enrichRecommendations(data, toolIds, budgetType) ==
    LET named == SelectSeq(ToolsInOrder(data), LAMBDA t : t.id \in toolIds)
    IN  IF budgetType = "free" /\ \E i \in 1..Len(named) : ~named[i].pricing.defined
        THEN RecThrew
        ELSE RecResult("gemini",
                 slice3(SelectSeq(named,
                            LAMBDA t : ~(budgetType = "free" /\ ~t.pricing.free))))

\* What the Gemini completion may answer: an exception, a text without a
\* JSON object, or an object naming tool ids
GeminiOutcomes ==
    {[kind |-> "throws", tools |-> {}], [kind |-> "unparsable", tools |-> {}]}
    \cup {[kind |-> "ids", tools |-> ids] :
            ids \in {{}, {<<"c","u","r","s","o","r">>},
                     {<<"c","h","a","t","g","p","t">>, <<"c","u","r","s","o","r">>,
                      <<"c","a","n","v","a">>, <<"b","o","l","t">>}}}
NoGemini == [kind |-> "none", tools |-> {}]

\* getGeminiRecommendation: the completion's exception propagates; a failure
\* to parse or to enrich is caught and gives null
getGeminiRecommendation(data, out, budgetType) ==
    IF out.kind = "throws" THEN [kind |-> "threw", result |-> RecThrew]
    ELSE IF out.kind = "unparsable" THEN [kind |-> "null", result |-> RecThrew]
    ELSE LET r == enrichRecommendations(data, out.tools, budgetType)
         IN  IF r.threw THEN [kind |-> "null", result |-> RecThrew]
             ELSE [kind |-> "result", result |-> r]

\* the caller's category argument: none (null), or a key
NoCategory == ""

\* getRecommendations: the category the caller supplies, then Gemini when it
\* is configured (out is its answer, NoGemini when it is not), then the
\* keyword fallback.  aiCalled: whether the completion was requested.
getRecommendations(data, userQuery, budgetType, category, out) ==
    IF category # NoCategory /\ category \in CatKeys \cup ProtoKeys
    THEN [aiCalled |-> FALSE,
          result |-> getToolsFromCategory(data, category, budgetType, userQuery)]
    ELSE IF out.kind = "none"
    THEN [aiCalled |-> FALSE,
          result |-> getFallbackRecommendation(data, userQuery, budgetType)]
    ELSE LET g == getGeminiRecommendation(data, out, budgetType)
         IN  [aiCalled |-> TRUE,
              result |-> IF g.kind = "result" /\ Len(g.result.tools) > 0
                         THEN g.result
                         ELSE getFallbackRecommendation(data, userQuery, budgetType)]

\* the arguments of the requests to /api/recommend
Queries == {<<"c","o","d","e">>, <<"h","i">>}
Budgets == {"free", "premium"}
CategoryArgs == {NoCategory, "coding_assistance", "audio", "constructor"}

\* no discovery is in flight, and the last one, if any since the start, was
\* a single discovery that reported success
Quiet ==
    \A t \in Tasks :
        \/ task[t].pc = "idle"
        \/ task[t].pc = "done" /\ task[t].op = "url" /\ task[t].result.success

\* what the model keeps of a request to /api/recommend that was answered,
\* out being the completion's answer
Answered(userQuery, budgetType, category, out) ==
    LET r == getRecommendations(engineTools, userQuery, budgetType, category, out)
    IN  [called |-> TRUE, query |-> userQuery, budget |-> budgetType,
         category |-> category,
         ai |-> IF r.aiCalled THEN out ELSE NoGemini,
         result |-> r.result]

\* POST /api/recommend.  The engine answers from this.tools, the catalog it
\* loaded, and writes nothing.  The requests considered are the first one
\* after the start and the first one after a successful discoverToolByUrl,
\* one at a time.
GetRecommendations(userQuery, budgetType, category) ==
    /\ Quiet
    /\ rec = NoRec
    /\ \E out \in IF geminiKey THEN GeminiOutcomes ELSE {NoGemini} :
          rec' = Answered(userQuery, budgetType, category, out)
    /\ UNCHANGED <<toolsFile, discovered, engineTools, task, commits, groqKey,
                   geminiKey, disk, logFile, cat, chatVars, intentVars>>

\* the process is started again: the engine's constructor loads the catalog
\* document; the operations in flight are gone
Restart ==
    /\ engineTools' = toolsFile
    /\ task' = [t \in Tasks |-> IdleTask]
    /\ rec' = NoRec
    /\ UNCHANGED <<toolsFile, discovered, commits, groqKey, geminiKey, disk, logFile, cat, chatVars,
                   intentVars>>
(***************************************************************************)
(* The specification of the discovery pipeline and the engine              *)
(***************************************************************************)

Init ==
    /\ \E stale \in {0, 1} :
          toolsFile = [categories |-> InitialCategories,
                       totalTools |-> SumLens(InitialCategories, CatKeys) + stale]
    /\ discovered = <<>>
    /\ engineTools = toolsFile
    /\ groqKey \in BOOLEAN
    /\ geminiKey \in BOOLEAN
    /\ disk = "refuses"
    /\ logFile = "ok"
    /\ cat = NoRec
    /\ task = [t \in Tasks |-> IdleTask]
    /\ commits = 0
    /\ rec = NoRec
    /\ history = <<>>
    /\ chat = NoRec
    /\ query = <<>>
    /\ intent = NoRec

\* the request slot of the sequential specification
Seq1 == {"r1"}

\* no discovery has run since the process started: in the specification with
\* restarts the engine is asked only then
JustStarted == \A t \in Tasks : task[t].pc = "idle"

Next ==
    \/ \E t \in Seq1, url \in Urls : CallDiscoverToolByUrl(t, url)
    \/ \E t \in Seq1, toolName \in Names : CallDiscoverToolByName(t, toolName)
    \/ \E t \in Seq1 : CallRunFullScrape(t)
    \/ \E t \in Seq1 : FetchReturn(t)
    \/ \E t \in Seq1 : ClassifyReturn(t)
    \/ \E t \in Seq1 : ListingReturn(t)
    \/ \E t \in Seq1 : ScrapeFetchReturn(t)
    \/ \E t \in Seq1 : ScrapeClassifyReturn(t)
    \/ \E t \in Seq1 : SleepReturn(t)
    \/ \E q \in Queries, b \in Budgets, c \in CategoryArgs :
          JustStarted /\ GetRecommendations(q, b, c)
    \/ Restart

Spec == Init /\ [][Next]_vars

(***************************************************************************)
(* One process, never restarted: single discoveries and the               *)
(* recommendation requests that follow them.                              *)
(***************************************************************************)

NextServe ==
    \/ \E url \in Urls : CallDiscoverToolByUrl("r1", url)
    \/ FetchReturn("r1")
    \/ ClassifyReturn("r1")
    \/ \E q \in Queries, b \in Budgets, c \in CategoryArgs :
          GetRecommendations(q, b, c)

SpecServe == Init /\ [][NextServe]_vars

(***************************************************************************)
(* Batches of runFullScrape whose external calls all return: the page      *)
(* requests have a 10 s timeout, the completion call answers or throws,    *)
(* the delay's timer fires.  The return action of an await is enabled      *)
(* exactly while the batch is at that await, so its weak fairness is       *)
(* stated on the batch's position: the batch is at no await forever.       *)
(***************************************************************************)

\* the await at pc returns
Returns(pc) == []<>(task["r1"].pc # pc)

NextScrape ==
    \/ CallRunFullScrape("r1")
    \/ ListingReturn("r1")
    \/ ScrapeFetchReturn("r1")
    \/ ScrapeClassifyReturn("r1")
    \/ SleepReturn("r1")

SpecScrape ==
    /\ Init /\ [][NextScrape]_vars
    /\ Returns("listing")
    /\ Returns("sfetch")
    /\ Returns("sclassify")
    /\ Returns("sleep")

(***************************************************************************)
(* Single discoveries on a disk whose failing writes either leave the      *)
(* file alone or leave it truncated.                                       *)
(***************************************************************************)

InitDisk ==
    /\ \E stale \in {0, 1} :
          toolsFile = [categories |-> InitialCategories,
                       totalTools |-> SumLens(InitialCategories, CatKeys) + stale]
    /\ discovered = <<>>
    /\ engineTools = toolsFile
    /\ groqKey \in BOOLEAN
    /\ geminiKey = FALSE
    /\ disk \in {"refuses", "tears"}
    /\ logFile = "ok"
    /\ cat = NoRec
    /\ task = [t \in Tasks |-> IdleTask]
    /\ commits = 0
    /\ rec = NoRec
    /\ history = <<>>
    /\ chat = NoRec
    /\ query = <<>>
    /\ intent = NoRec

NextDisk ==
    \/ \E url \in Urls : CallDiscoverToolByUrl("r1", url)
    \/ FetchReturn("r1")
    \/ ClassifyReturn("r1")

SpecDisk == InitDisk /\ [][NextDisk]_vars

(***************************************************************************)
(* categorizeWithAI on its own: the candidates' data and the answers of    *)
(* the completion service it may meet.                                     *)
(***************************************************************************)

\* the content of the completion's first choice, as categorizeWithAI gets
\* it: the request throws; a text that is no JSON; no content (the code
\* parses '{}' instead); the object {}; an entry without isAITool; an entry
\* with isAITool false; an entry with isAITool true
RawAnswer(kind, tool) == [kind |-> kind, tool |-> tool]
NoTool == ClassTool(Undefined, Undefined, "", NoPricing)
NoAnswer == RawAnswer("none", NoTool)
RawAnswers ==
    {RawAnswer(k, NoTool) : k \in {"throws", "text", "noContent", "emptyObject"}}
    \cup {RawAnswer(k, ClassTool(<<"b","o","l","t">>, <<"B","o","l","t">>, "design",
                                 Pricing(TRUE, Undefined))) :
             k \in {"noVerdict", "false"}}
    \cup {RawAnswer("tool", c) : c \in ClassTools}

\* JSON.parse(content || '{}') and the test of result.isAITool: the catch
\* block, null, or the entry
parseCompletion(raw) ==
    IF raw.kind \in {"throws", "text"} THEN [kind |-> "throws", tool |-> raw.tool]
    ELSE IF raw.kind \in {"noContent", "emptyObject", "noVerdict", "false"}
    THEN [kind |-> "notAITool", tool |-> raw.tool]
    ELSE [kind |-> "tool", tool |-> raw.tool]

\* categorizeWithAI: basicCategorize without a key; with a key the entry of
\* the completion, null when its isAITool is not truthy, basicCategorize
\* from the catch block
categorizeWithAI(toolData, raw) ==
    IF ~groqKey THEN [kind |-> "tool", tool |-> categorizeFallback(toolData)]
    ELSE LET out == parseCompletion(raw)
         IN  IF out.kind = "throws"
             THEN [kind |-> "tool", tool |-> categorizeFallback(toolData)]
             ELSE IF out.kind = "notAITool" THEN [kind |-> "null", tool |-> NoTool]
             ELSE [kind |-> "tool", tool |-> out.tool]

\* the candidates: with and without a name, with and without a title, and
\* descriptions with no keyword of the table, with one category ahead, and
\* with categories level
Descriptions ==
    {<<>>, <<"h","e","l","l","o">>, <<"c","o","d","e"," ","a","r","t">>, <<"l","o","g","o"," ","a","p","p">>, <<"d","e","s","i","g","n"," ","l","o","g","o"," ","c","o","d","e">>,
     <<"e","d","i","t"," ","p","h","o","t","o"," ","v","i","d","e","o"," ","c","l","i","p">>, <<"m","u","s","i","c">>}
ToolDatas ==
    {ToolData(n, t, d, Undefined, Undefined) :
        n \in {Undefined, <<"P","i","x","e","l">>}, t \in {Undefined, <<"P","i","x","e","l"," ","d","e","c","k">>},
        d \in Descriptions}

\* the calls considered: the first one since the process started
CategorizeWithAI(toolData) ==
    /\ ~cat.called
    /\ \E raw \in IF groqKey THEN RawAnswers ELSE {NoAnswer} :
          cat' = [called |-> TRUE, toolData |-> toolData, raw |-> raw,
                  result |-> categorizeWithAI(toolData, raw)]
    /\ UNCHANGED <<discoveryVars, groqKey, geminiKey, disk, logFile, chatVars,
                   intentVars>>

InitCategorize == Init /\ geminiKey = FALSE

NextCategorize == \E toolData \in ToolDatas : CategorizeWithAI(toolData)

SpecCategorize == InitCategorize /\ [][NextCategorize]_vars
(***************************************************************************)
(* Single discoveries by URL, the completion service answering with any    *)
(* of the contents above; the pages include a second tool for the design   *)
(* category.                                                               *)
(***************************************************************************)

\* the completion call of categorizeWithAI returns: what discoverToolByUrl
\* does with the outcome, and the call as categorizeWithAI saw it
CompletionReturn(t) ==
    /\ task[t].pc = "classify"
    /\ \E raw \in RawAnswers, writeOk \in BOOLEAN :
          LET toolData == analyzeToolUrl(task[t].url, TRUE).data
          IN  /\ Apply(t, afterClassify(World(t), parseCompletion(raw), writeOk))
              /\ cat' = [called |-> TRUE, toolData |-> toolData, raw |-> raw,
                         result |-> categorizeWithAI(toolData, raw)]
    /\ UNCHANGED <<engineTools, rec, groqKey, geminiKey, disk, logFile, chatVars,
                   intentVars>>

NextUrls ==
    \/ \E url \in Urls \cup {LookaUrl} : CallDiscoverToolByUrl("r1", url)
    \/ FetchReturn("r1")
    \/ CompletionReturn("r1")

SpecUrls == InitCategorize /\ [][NextUrls]_vars
(***************************************************************************)
(* Single discoveries and batches with a discovery log that may be         *)
(* unusable: data/discovered.json is created by the constructor only when  *)
(* it is absent; a file that is there is taken as it is, and a file that   *)
(* is no JSON document, or cannot be written, makes logDiscovery throw     *)
(* inside its try block.                                                   *)
(***************************************************************************)

InitLog ==
    /\ \E stale \in {0, 1} :
          toolsFile = [categories |-> InitialCategories,
                       totalTools |-> SumLens(InitialCategories, CatKeys) + stale]
    /\ discovered = <<>>
    /\ engineTools = toolsFile
    /\ groqKey \in BOOLEAN
    /\ geminiKey = FALSE
    /\ disk = "refuses"
    /\ logFile \in {"ok", "unusable"}
    /\ cat = NoRec
    /\ task = [t \in Tasks |-> IdleTask]
    /\ commits = 0
    /\ rec = NoRec
    /\ history = <<>>
    /\ chat = NoRec
    /\ query = <<>>
    /\ intent = NoRec

NextLog ==
    \/ \E url \in Urls : CallDiscoverToolByUrl("r1", url)
    \/ FetchReturn("r1")
    \/ ClassifyReturn("r1")
    \/ CallRunFullScrape("r1")
    \/ ListingReturn("r1")
    \/ ScrapeFetchReturn("r1")
    \/ ScrapeClassifyReturn("r1")
    \/ SleepReturn("r1")

SpecLog == InitLog /\ [][NextLog]_vars
(***************************************************************************)
(* The discovery pipeline with two requests in flight: the operations      *)
(* interleave at their awaits.                                             *)
(***************************************************************************)

\* each slot serves one request, r1's arriving first: two operations, every
\* interleaving of their steps
Arrives(t) ==
    /\ task[t].pc = "idle"
    /\ t = "r2" => task["r1"].pc # "idle"

NextConc ==
    \/ \E t \in Tasks, url \in Urls : Arrives(t) /\ CallDiscoverToolByUrl(t, url)
    \/ \E t \in Tasks, toolName \in Names :
          Arrives(t) /\ CallDiscoverToolByName(t, toolName)
    \/ \E t \in Tasks : Arrives(t) /\ CallRunFullScrape(t)
    \/ \E t \in Tasks : FetchReturn(t)
    \/ \E t \in Tasks : ClassifyReturn(t)
    \/ \E t \in Tasks : ListingReturn(t)
    \/ \E t \in Tasks : ScrapeFetchReturn(t)
    \/ \E t \in Tasks : ScrapeClassifyReturn(t)
    \/ \E t \in Tasks : SleepReturn(t)

\* the recommendation engine takes no part
InitConc == Init /\ geminiKey = FALSE

SpecConc == InitConc /\ [][NextConc]_vars

(***************************************************************************)
(* The conversation policy: handleChat, getGroqResponse, getSmartResponse  *)
(* and getSmartFallback of the engine.  The texts are the source's, without *)
(* their emoji.                                                            *)
(***************************************************************************)

startsWith(s, pre) == Len(s) >= Len(pre) /\ SubSeq(s, 1, Len(pre)) = pre

\* s without its leading white space
dropSpaces(s) ==
    IF \A i \in 1..Len(s) : isSpace(s[i]) THEN <<>>
    ELSE SubSeq(s, CHOOSE i \in 1..Len(s) :
                      ~isSpace(s[i]) /\ \A j \in 1..(i - 1) : isSpace(s[j]),
                Len(s))

\* \w of a regular expression
isWordChar(c) ==
    c \in Range(LowerCase) \cup Range(UpperCase)
          \cup {"0","1","2","3","4","5","6","7","8","9","_"}

\* /\b(phrase)\b/i.test(s), for a phrase that starts and ends with a word
\* character
matchesWord(s, phrase) ==
    LET low == toLowerCase(s)
    IN  \E i \in 0..(Len(low) - Len(phrase)) :
           /\ SubSeq(low, i + 1, i + Len(phrase)) = phrase
           /\ (i = 0 \/ ~isWordChar(low[i]))
           /\ (i + Len(phrase) = Len(low) \/ ~isWordChar(low[i + Len(phrase) + 1]))

\* /\b(p1|p2|...)\b/i.test(s)
matchesAnyWord(s, ps) == \E i \in 1..Len(ps) : matchesWord(s, ps[i])

\* /p1|p2|.../i.test(s)
includesAny(s, ps) == \E i \in 1..Len(ps) : includes(toLowerCase(s), ps[i])

\* /^p1|^p2|.../i.test(s)
startsWithAny(s, ps) == \E i \in 1..Len(ps) : startsWith(toLowerCase(s), ps[i])

\* /^(free|free tools?|premium|paid|pro)$/
StandaloneWords == <<
    <<"f","r","e","e">>,
    <<"f","r","e","e"," ","t","o","o","l">>,
    <<"f","r","e","e"," ","t","o","o","l","s">>,
    <<"p","r","e","m","i","u","m">>,
    <<"p","a","i","d">>,
    <<"p","r","o">>>>

\* the optional opening of the second pattern of a standalone budget answer
BudgetPrefixes == <<
    <<"i"," ","w","a","n","t">>,
    <<"i"," ","p","r","e","f","e","r">>,
    <<"i","'","l","l"," ","g","o"," ","w","i","t","h">>,
    <<"g","o"," ","w","i","t","h">>,
    <<"s","h","o","w"," ","m","e">>,
    <<"g","i","v","e"," ","m","e">>>>

\* the budget word of the second pattern
BudgetWords == <<
    <<"f","r","e","e">>,
    <<"p","r","e","m","i","u","m">>,
    <<"p","a","i","d">>>>

\* /^(free|premium|paid)(\s+tools?)?$/ on what follows the opening and the
\* white space
budgetTail(rest) ==
    \E i \in 1..Len(BudgetWords) :
       /\ startsWith(rest, BudgetWords[i])
       /\ LET after == SubSeq(rest, Len(BudgetWords[i]) + 1, Len(rest))
          IN  \/ after = <<>>
              \/ /\ isSpace(after[1])
                 /\ dropSpaces(after) \in {<<"t","o","o","l">>, <<"t","o","o","l","s">>}

\* isStandaloneBudgetAnswer, on the trimmed lower-case message
isStandaloneBudgetAnswer(lowerMessage) ==
    \/ contains(StandaloneWords, lowerMessage)
    \/ budgetTail(dropSpaces(lowerMessage))
    \/ \E i \in 1..Len(BudgetPrefixes) :
          /\ startsWith(lowerMessage, BudgetPrefixes[i])
          /\ budgetTail(dropSpaces(SubSeq(lowerMessage, Len(BudgetPrefixes[i]) + 1,
                                          Len(lowerMessage))))

\* the phrases of wantsFree
WantsFree == <<
    <<"f","r","e","e">>,
    <<"n","o"," ","c","o","s","t">>,
    <<"w","i","t","h","o","u","t"," ","p","a","y","i","n","g">>,
    <<"d","o","n","'","t"," ","w","a","n","t"," ","t","o"," ","p","a","y">>,
    <<"i"," ","n","e","e","d"," ","f","r","e","e">>,
    <<"w","a","n","t"," ","f","r","e","e">>>>

\* the phrases of wantsPremium
WantsPremium == <<
    <<"p","r","e","m","i","u","m">>,
    <<"p","a","i","d">>,
    <<"p","r","o">>,
    <<"p","r","o","f","e","s","s","i","o","n","a","l">>,
    <<"b","e","s","t"," ","q","u","a","l","i","t","y">>,
    <<"m","o","n","e","y">>,
    <<"b","u","d","g","e","t">>,
    <<"w","i","l","l","i","n","g"," ","t","o"," ","p","a","y">>>>

\* the phrases of isToolRequest
ToolRequest == <<
    <<"t","o","o","l">>,
    <<"a","p","p">>,
    <<"s","o","f","t","w","a","r","e">>,
    <<"r","e","c","o","m","m","e","n","d">>,
    <<"s","u","g","g","e","s","t">>,
    <<"f","i","n","d">>,
    <<"n","e","e","d">>,
    <<"w","a","n","t"," ","t","o">>,
    <<"h","e","l","p"," ","m","e">>,
    <<"l","o","o","k","i","n","g"," ","f","o","r">>,
    <<"c","r","e","a","t","e">>,
    <<"b","u","i","l","d">>,
    <<"m","a","k","e">>,
    <<"d","e","s","i","g","n">>,
    <<"e","d","i","t">>,
    <<"g","e","n","e","r","a","t","e">>>>

\* a turn of the history
Turn(role, content) == [role |-> role, content |-> content]

\* history.filter(m => m.role === role).slice(-1), as a sequence of at most
\* one turn
lastOf(hist, role) ==
    LET own == SelectSeq(hist, LAMBDA m : m.role = role)
    IN  IF own = <<>> THEN <<>> ELSE <<own[Len(own)]>>

\* what handleChat answers
ChatResult(type, budget, originalQuery, response) ==
    [type |-> type, budget |-> budget, originalQuery |-> originalQuery,
     response |-> response]
Reply(type, response) == ChatResult(type, "none", Undefined, response)
DirectRecommendation(budget, originalQuery) ==
    ChatResult("direct_recommendation", budget, originalQuery, Undefined)

\* the budget question of the rule-based responder
BudgetQuestion ==
    <<"N","i","c","e","!"," ","I"," ","c","a","n"," ","h","e","l","p"," ",
      "w","i","t","h"," ","t","h","a","t"," "," ","W","o","u","l","d"," ",
      "y","o","u"," ","p","r","e","f","e","r"," ","f","r","e","e"," ","t",
      "o","o","l","s"," ","o","r"," ","a","r","e"," ","y","o","u"," ","o",
      "p","e","n"," ","t","o"," ","p","r","e","m","i","u","m"," ","o","p",
      "t","i","o","n","s","?">>

\* the other replies of the rule-based responder
GreetingReply ==
    <<"H","e","y"," ","t","h","e","r","e","!"," "," ","I","'","m"," ","D",
      "E","C","Y",","," ","a","n"," ","A","I"," ","a","s","s","i","s","t",
      "a","n","t"," ","t","h","a","t"," ","k","n","o","w","s"," ","5","0",
      "+"," ","A","I"," ","t","o","o","l","s"," ","i","n","s","i","d","e",
      "-","o","u","t","."," ","W","h","a","t"," ","a","r","e"," ","y","o",
      "u"," ","w","o","r","k","i","n","g"," ","o","n"," ","t","o","d","a",
      "y","?">>

HowAreYouReply ==
    <<"I","'","m"," ","d","o","i","n","g"," ","g","r","e","a","t",","," ",
      "t","h","a","n","k","s"," ","f","o","r"," ","a","s","k","i","n","g",
      "!"," "," ","R","e","a","d","y"," ","t","o"," ","h","e","l","p"," ",
      "y","o","u"," ","f","i","n","d"," ","t","h","e"," ","p","e","r","f",
      "e","c","t"," ","A","I"," ","t","o","o","l","s","."," ","W","h","a",
      "t","'","s"," ","o","n"," ","y","o","u","r"," ","m","i","n","d","?">>

ThanksReply ==
    <<"Y","o","u","'","r","e"," ","w","e","l","c","o","m","e","!"," "," ",
      "A","n","y","t","h","i","n","g"," ","e","l","s","e"," ","y","o","u",
      "'","d"," ","l","i","k","e"," ","t","o"," ","k","n","o","w"," ","a",
      "b","o","u","t"," ","A","I"," ","t","o","o","l","s","?">>

IdentityReply ==
    <<"I","'","m"," ","D","E","C","Y","!"," "," ","T","h","i","n","k"," ",
      "o","f"," ","m","e"," ","a","s"," ","y","o","u","r"," ","A","I","-",
      "s","a","v","v","y"," ","f","r","i","e","n","d"," ","w","h","o"," ",
      "k","n","o","w","s"," ","5","0","+"," ","t","o","o","l","s"," ","l",
      "i","k","e"," ","C","a","n","v","a",","," ","M","i","d","j","o","u",
      "r","n","e","y",","," ","B","o","l","t",","," ","R","u","n","w","a",
      "y",","," ","a","n","d"," ","m","o","r","e","."," ","I"," ","c","a",
      "n"," ","h","e","l","p"," ","y","o","u"," ","f","i","n","d"," ","t",
      "h","e"," ","r","i","g","h","t"," ","t","o","o","l"," ","f","o","r",
      " ","a","n","y"," ","p","r","o","j","e","c","t"," ","-"," ","j","u",
      "s","t"," ","t","e","l","l"," ","m","e"," ","w","h","a","t"," ","y",
      "o","u","'","r","e"," ","b","u","i","l","d","i","n","g","!">>

DefaultReply ==
    <<"I","'","m"," ","h","e","r","e"," ","t","o"," ","c","h","a","t"," ",
      "a","n","d"," ","h","e","l","p","!"," "," ","I"," ","k","n","o","w",
      " ","a"," ","t","o","n"," ","a","b","o","u","t"," ","A","I"," ","t",
      "o","o","l","s"," ","-"," ","f","r","o","m"," ","i","m","a","g","e",
      " ","g","e","n","e","r","a","t","o","r","s"," ","t","o"," ","a","p",
      "p"," ","b","u","i","l","d","e","r","s","."," ","W","h","a","t","'",
      "s"," ","o","n"," ","y","o","u","r"," ","m","i","n","d","?">>

\* the answers to a follow-up question about the tool the context mentions
toolInfo == <<
    [key |-> <<"c","a","n","v","a">>,
     text |->
        <<"Y","e","s","!"," ","C","a","n","v","a"," ","h","a","s"," ","a",
          " ","g","e","n","e","r","o","u","s"," ","f","r","e","e"," ","t",
          "i","e","r"," ","w","i","t","h"," ","t","o","n","s"," ","o","f",
          " ","f","e","a","t","u","r","e","s","."," ","T","h","e"," ","P",
          "r","o"," ","v","e","r","s","i","o","n"," ","a","d","d","s"," ",
          "m","o","r","e"," ","t","e","m","p","l","a","t","e","s"," ","a",
          "n","d"," ","f","e","a","t","u","r","e","s"," ","f","o","r"," ",
          "$","1","2",".","9","9","/","m","o","n","t","h",".">>],
    [key |-> <<"m","i","d","j","o","u","r","n","e","y">>,
     text |->
        <<"N","o",","," ","M","i","d","j","o","u","r","n","e","y"," ","i",
          "s"," ","p","a","i","d"," ","o","n","l","y","."," ","P","l","a",
          "n","s"," ","s","t","a","r","t"," ","a","t"," ","$","1","0","/",
          "m","o","n","t","h"," ","f","o","r"," ","t","h","e"," ","B","a",
          "s","i","c"," ","t","i","e","r",".">>],
    [key |-> <<"c","h","a","t","g","p","t">>,
     text |->
        <<"Y","e","s","!"," ","C","h","a","t","G","P","T"," ","h","a","s",
          " ","a"," ","f","r","e","e"," ","t","i","e","r","."," ","G","P",
          "T","-","4"," ","a","c","c","e","s","s"," ","r","e","q","u","i",
          "r","e","s"," ","C","h","a","t","G","P","T"," ","P","l","u","s",
          " ","a","t"," ","$","2","0","/","m","o","n","t","h",".">>],
    [key |-> <<"f","i","g","m","a">>,
     text |->
        <<"Y","e","s","!"," ","F","i","g","m","a"," ","h","a","s"," ","a",
          " ","f","r","e","e"," ","t","i","e","r"," ","f","o","r"," ","u",
          "p"," ","t","o"," ","3"," ","p","r","o","j","e","c","t","s",".",
          " ","P","r","o","f","e","s","s","i","o","n","a","l"," ","p","l",
          "a","n","s"," ","s","t","a","r","t"," ","a","t"," ","$","1","2",
          "/","m","o","n","t","h",".">>],
    [key |-> <<"b","o","l","t">>,
     text |->
        <<"B","o","l","t"," ","h","a","s"," ","a"," ","f","r","e","e"," ",
          "t","i","e","r"," ","f","o","r"," ","b","a","s","i","c"," ","u",
          "s","a","g","e","."," ","P","r","e","m","i","u","m"," ","f","e",
          "a","t","u","r","e","s"," ","r","e","q","u","i","r","e"," ","a",
          " ","s","u","b","s","c","r","i","p","t","i","o","n",".">>],
    [key |-> <<"l","o","v","a","b","l","e">>,
     text |->
        <<"L","o","v","a","b","l","e"," ","o","f","f","e","r","s"," ","s",
          "o","m","e"," ","f","r","e","e"," ","f","e","a","t","u","r","e",
          "s","."," ","F","u","l","l"," ","a","c","c","e","s","s"," ","r",
          "e","q","u","i","r","e","s"," ","a"," ","s","u","b","s","c","r",
          "i","p","t","i","o","n",".">>],
    [key |-> <<"r","u","n","w","a","y">>,
     text |->
        <<"R","u","n","w","a","y"," ","h","a","s"," ","a"," ","l","i","m",
          "i","t","e","d"," ","f","r","e","e"," ","t","i","e","r","."," ",
          "P","r","o"," ","f","e","a","t","u","r","e","s"," ","n","e","e",
          "d"," ","a"," ","s","u","b","s","c","r","i","p","t","i","o","n",
          " ","s","t","a","r","t","i","n","g"," ","a","t"," ","$","1","5",
          "/","m","o","n","t","h",".">>]>>

\* the answers to a message that names a tool
toolAnswers == <<
    [key |-> <<"c","a","n","v","a">>,
     text |->
        <<"C","a","n","v","a"," ","i","s"," ","a","n"," ","a","w","e","s",
          "o","m","e"," ","d","e","s","i","g","n"," ","p","l","a","t","f",
          "o","r","m","!"," "," ","Y","o","u"," ","c","a","n"," ","c","r",
          "e","a","t","e"," ","g","r","a","p","h","i","c","s",","," ","p",
          "r","e","s","e","n","t","a","t","i","o","n","s",","," ","s","o",
          "c","i","a","l"," ","m","e","d","i","a"," ","p","o","s","t","s",
          ","," ","a","n","d"," ","m","o","r","e","."," ","I","t"," ","h",
          "a","s"," ","a"," ","g","e","n","e","r","o","u","s"," ","f","r",
          "e","e"," ","t","i","e","r",","," ","a","n","d"," ","P","r","o",
          " ","i","s"," ","$","1","2",".","9","9","/","m","o","n","t","h",
          "."," ","W","o","u","l","d"," ","y","o","u"," ","l","i","k","e",
          " ","m","e"," ","t","o"," ","r","e","c","o","m","m","e","n","d",
          " ","s","i","m","i","l","a","r"," ","t","o","o","l","s","?">>],
    [key |-> <<"m","i","d","j","o","u","r","n","e","y">>,
     text |->
        <<"M","i","d","j","o","u","r","n","e","y"," ","i","s"," ","o","n",
          "e"," ","o","f"," ","t","h","e"," ","b","e","s","t"," ","A","I",
          " ","i","m","a","g","e"," ","g","e","n","e","r","a","t","o","r",
          "s","!"," "," ","I","t"," ","c","r","e","a","t","e","s"," ","s",
          "t","u","n","n","i","n","g",","," ","a","r","t","i","s","t","i",
          "c"," ","i","m","a","g","e","s"," ","f","r","o","m"," ","t","e",
          "x","t"," ","p","r","o","m","p","t","s","."," ","I","t","'","s",
          " ","p","a","i","d","-","o","n","l","y",","," ","s","t","a","r",
          "t","i","n","g"," ","a","t"," ","$","1","0","/","m","o","n","t",
          "h","."," ","W","a","n","t"," ","m","e"," ","t","o"," ","s","u",
          "g","g","e","s","t"," ","f","r","e","e"," ","a","l","t","e","r",
          "n","a","t","i","v","e","s","?">>],
    [key |-> <<"c","h","a","t","g","p","t">>,
     text |->
        <<"C","h","a","t","G","P","T"," ","i","s"," ","O","p","e","n","A",
          "I","'","s"," ","c","o","n","v","e","r","s","a","t","i","o","n",
          "a","l"," ","A","I"," ","(","l","i","k","e"," ","m","e"," ","b",
          "u","t"," ","d","i","f","f","e","r","e","n","t"," ",")","."," ",
          "T","h","e"," ","f","r","e","e"," ","v","e","r","s","i","o","n",
          " ","u","s","e","s"," ","G","P","T","-","3",".","5",","," ","w",
          "h","i","l","e"," ","P","l","u","s"," ","(","$","2","0","/","m",
          "o","n","t","h",")"," ","g","e","t","s"," ","y","o","u"," ","G",
          "P","T","-","4","."," ","W","h","a","t"," ","d","o"," ","y","o",
          "u"," ","w","a","n","t"," ","t","o"," ","u","s","e"," ","i","t",
          " ","f","o","r","?">>],
    [key |-> <<"f","i","g","m","a">>,
     text |->
        <<"F","i","g","m","a"," ","i","s"," ","a"," ","p","o","w","e","r",
          "f","u","l"," ","d","e","s","i","g","n"," ","a","n","d"," ","p",
          "r","o","t","o","t","y","p","i","n","g"," ","t","o","o","l","!",
          " "," ","G","r","e","a","t"," ","f","o","r"," ","U","I","/","U",
          "X"," ","d","e","s","i","g","n",","," ","w","i","r","e","f","r",
          "a","m","e","s",","," ","a","n","d"," ","c","o","l","l","a","b",
          "o","r","a","t","i","o","n","."," ","H","a","s"," ","a"," ","f",
          "r","e","e"," ","t","i","e","r"," ","f","o","r"," ","u","p"," ",
          "t","o"," ","3"," ","p","r","o","j","e","c","t","s","."," ","A",
          "r","e"," ","y","o","u"," ","i","n","t","o"," ","d","e","s","i",
          "g","n","?">>],
    [key |-> <<"b","o","l","t">>,
     text |->
        <<"B","o","l","t"," ","i","s"," ","a","n"," ","A","I"," ","a","p",
          "p"," ","b","u","i","l","d","e","r"," ","t","h","a","t"," ","h",
          "e","l","p","s"," ","y","o","u"," ","c","r","e","a","t","e"," ",
          "a","p","p","s"," ","q","u","i","c","k","l","y","!"," "," ","I",
          "t"," ","w","r","i","t","e","s"," ","c","o","d","e"," ","f","o",
          "r"," ","y","o","u"," ","b","a","s","e","d"," ","o","n"," ","y",
          "o","u","r"," ","d","e","s","c","r","i","p","t","i","o","n","s",
          "."," ","H","a","s"," ","s","o","m","e"," ","f","r","e","e"," ",
          "f","e","a","t","u","r","e","s","."," ","W","a","n","t"," ","t",
          "o"," ","b","u","i","l","d"," ","a","n"," ","a","p","p","?">>],
    [key |-> <<"r","u","n","w","a","y">>,
     text |->
        <<"R","u","n","w","a","y"," ","i","s"," ","a","m","a","z","i","n",
          "g"," ","f","o","r"," ","A","I"," ","v","i","d","e","o"," ","e",
          "d","i","t","i","n","g"," ","a","n","d"," ","g","e","n","e","r",
          "a","t","i","o","n","!"," "," ","I","t"," ","c","a","n"," ","r",
          "e","m","o","v","e"," ","b","a","c","k","g","r","o","u","n","d",
          "s",","," ","g","e","n","e","r","a","t","e"," ","v","i","d","e",
          "o","s"," ","f","r","o","m"," ","t","e","x","t",","," ","a","n",
          "d"," ","m","o","r","e","."," ","L","i","m","i","t","e","d"," ",
          "f","r","e","e"," ","t","i","e","r"," ","a","v","a","i","l","a",
          "b","l","e","."," ","I","n","t","e","r","e","s","t","e","d"," ",
          "i","n"," ","v","i","d","e","o"," ","c","r","e","a","t","i","o",
          "n","?">>]>>

\* the patterns of getSmartFallback, in the order it tries them
FollowUpOpenings == <<
    <<"i","s"," ","i","t">>,
    <<"i","s"," ","t","h","a","t">>,
    <<"d","o","e","s"," ","i","t">>,
    <<"c","a","n"," ","i","t">>>>
Greetings == <<
    <<"h","i">>,
    <<"h","e","l","l","o">>,
    <<"h","e","y">>,
    <<"h","o","l","a">>,
    <<"y","o">>,
    <<"g","r","e","e","t","i","n","g","s">>,
    <<"s","u","p">>,
    <<"w","h","a","t","'","s"," ","u","p">>>>
HowAreYou == <<
    <<"h","o","w"," ","a","r","e"," ","y","o","u">>,
    <<"h","o","w","'","s"," ","i","t"," ","g","o","i","n","g">>,
    <<"w","h","a","t","'","s"," ","n","e","w">>,
    <<"h","o","w"," ","d","o"," ","y","o","u"," ","d","o">>>>
Thanks == <<
    <<"t","h","a","n","k">>,
    <<"t","h","x">>,
    <<"a","p","p","r","e","c","i","a","t","e">>>>
Identity == <<
    <<"w","h","o"," ","a","r","e"," ","y","o","u">>,
    <<"w","h","a","t"," ","a","r","e"," ","y","o","u">>,
    <<"w","h","a","t"," ","c","a","n"," ","y","o","u"," ","d","o">>,
    <<"h","o","w"," ","d","o"," ","y","o","u"," ","w","o","r","k">>,
    <<"w","h","a","t"," ","i","s"," ","d","e","c","y">>>>
RequestOpenings == <<
    <<"i"," ","w","a","n","t"," ","t","o">>,
    <<"i"," ","n","e","e","d"," ","t","o">>,
    <<"h","e","l","p"," ","m","e">>,
    <<"l","o","o","k","i","n","g"," ","f","o","r">>,
    <<"r","e","c","o","m","m","e","n","d">>>>
RequestSubjects == <<
    <<"a","p","p">>,
    <<"w","e","b","s","i","t","e">>,
    <<"c","o","d","e">>,
    <<"p","r","o","g","r","a","m">>,
    <<"s","o","f","t","w","a","r","e">>,
    <<"v","i","d","e","o">>,
    <<"i","m","a","g","e">>,
    <<"p","h","o","t","o">>,
    <<"d","e","s","i","g","n">>,
    <<"l","o","g","o">>,
    <<"p","r","e","s","e","n","t","a","t","i","o","n">>,
    <<"s","l","i","d","e">>,
    <<"m","u","s","i","c">>,
    <<"a","u","d","i","o">>,
    <<"v","o","i","c","e">>,
    <<"w","r","i","t","e">>,
    <<"b","l","o","g">>,
    <<"a","r","t","i","c","l","e">>>>

\* the first entry of the table whose key the text includes, as a sequence
\* of at most one reply
firstHit(tbl, txt) ==
    LET hits == {i \in 1..Len(tbl) : includes(txt, tbl[i].key)}
    IN  IF hits = {} THEN <<>>
        ELSE <<tbl[CHOOSE i \in hits : \A j \in hits : i <= j].text>>

\* getSmartFallback: the rule-based responder
getSmartFallback(message, hist) ==
    LET msg == trim(toLowerCase(message))
        lastA == lastOf(hist, "assistant")
        lastU == lastOf(hist, "user")
        context == IF lastA # <<>> /\ lastA[1].content # <<>>
                   THEN toLowerCase(lastA[1].content)
                   ELSE IF lastU # <<>> THEN toLowerCase(lastU[1].content)
                   ELSE <<>>
        info == IF startsWithAny(msg, FollowUpOpenings)
                THEN firstHit(toolInfo, context) ELSE <<>>
        answer == firstHit(toolAnswers, msg)
    IN  IF info # <<>> THEN Reply("question", info[1])
        ELSE IF startsWithAny(msg, Greetings) THEN Reply("question", GreetingReply)
        ELSE IF includesAny(msg, HowAreYou) THEN Reply("question", HowAreYouReply)
        ELSE IF includesAny(msg, Thanks) THEN Reply("question", ThanksReply)
        ELSE IF includesAny(msg, Identity) THEN Reply("question", IdentityReply)
        ELSE IF answer # <<>> THEN Reply("question", answer[1])
        ELSE IF includesAny(msg, RequestOpenings) /\ includesAny(msg, RequestSubjects)
        THEN Reply("tool_request", BudgetQuestion)
        ELSE Reply("question", DefaultReply)

\* What a completion may answer: an exception, or a text
Completion(kind, txt) == [kind |-> kind, text |-> txt]
NoCompletion == Completion("none", <<>>)
AsksBudget ==
    <<"W","o","u","l","d"," ","y","o","u"," ","p","r","e","f","e","r"," ",
      "f","r","e","e"," ","t","o","o","l","s"," ","o","r"," ","a","r","e",
      " ","y","o","u"," ","o","p","e","n"," ","t","o"," ","p","r","e","m",
      "i","u","m"," ","o","p","t","i","o","n","s","?">>
ListsPlans ==
    <<"C","a","n","v","a"," ","i","s"," ","f","r","e","e",","," ","M","i",
      "d","j","o","u","r","n","e","y"," ","i","s"," ","p","r","e","m","i",
      "u","m",".">>
SmallTalk ==
    <<"T","e","l","l"," ","m","e"," ","m","o","r","e",".">>
Completions ==
    {Completion("throws", <<>>), Completion("text", <<>>),
     Completion("text", AsksBudget), Completion("text", ListsPlans),
     Completion("text", SmallTalk)}

\* the type getGroqResponse gives the completion's text
groqType(txt) ==
    LET low == toLowerCase(txt)
    IN  IF /\ includes(low, <<"f","r","e","e">>)
           /\ includes(low, <<"p","r","e","m","i","u","m">>)
           /\ \/ includes(low, <<"p","r","e","f","e","r">>)
              \/ includes(low, <<"w","o","u","l","d"," ","y","o","u">>)
        THEN "tool_request" ELSE "question"

\* the last assistant turn mentions both budgets
askedBudget(hist) ==
    LET lastA == lastOf(hist, "assistant")
    IN  /\ lastA # <<>>
        /\ includes(toLowerCase(lastA[1].content), <<"f","r","e","e">>)
        /\ includes(toLowerCase(lastA[1].content), <<"p","r","e","m","i","u","m">>)

\* getGroqResponse: the standalone budget answer, the direct budget
\* detection, then the completion; its exception propagates.  asked: the
\* completion service was called.
getGroqResponse(message, hist, out) ==
    LET lowerMessage == trim(toLowerCase(message))
        lastU == lastOf(hist, "user")
        wantsFree == matchesAnyWord(message, WantsFree)
        wantsPremium == matchesAnyWord(message, WantsPremium)
        isToolRequest == matchesAnyWord(message, ToolRequest)
    IN  IF isStandaloneBudgetAnswer(lowerMessage) /\ Len(hist) > 0 /\ askedBudget(hist)
        THEN [threw |-> FALSE, asked |-> FALSE,
              result |-> DirectRecommendation(
                  IF includes(lowerMessage, <<"f","r","e","e">>)
                  THEN "free" ELSE "premium",
                  IF lastU # <<>> THEN lastU[1].content ELSE message)]
        ELSE IF (wantsFree \/ wantsPremium) /\ isToolRequest
        THEN [threw |-> FALSE, asked |-> FALSE,
              result |-> DirectRecommendation(
                  IF wantsFree THEN "free" ELSE "premium", message)]
        ELSE IF out.kind = "throws"
        THEN [threw |-> TRUE, asked |-> TRUE, result |-> Reply("none", <<>>)]
        ELSE [threw |-> FALSE, asked |-> TRUE,
              result |-> Reply(groqType(out.text), out.text)]

\* getSmartResponse: Gemini's text, trimmed; its exception is caught and the
\* rule-based responder answers.  steps: the strategies that ran, in order.
getSmartResponse(message, hist, out) ==
    IF out.kind = "throws"
    THEN [result |-> getSmartFallback(message, hist), steps |-> <<"gemini", "rules">>]
    ELSE LET txt == trim(out.text)
             low == toLowerCase(txt)
         IN  [result |-> Reply(IF /\ includes(low, <<"f","r","e","e">>)
                                  /\ includes(low, <<"p","r","e","m","i","u","m">>)
                                  /\ includes(low, <<"p","r","e","f","e","r">>)
                               THEN "tool_request" ELSE "question", txt),
              steps |-> <<"gemini">>]

\* a variant of the chain that asks Gemini although Groq has answered
chatChainAskingBoth(g, message, hist, geminiOut) ==
    LET first == IF g.configured THEN <<"groq">> ELSE <<>>
        s == getSmartResponse(message, hist, geminiOut)
    IN  IF geminiOut.kind # "none"
        THEN [threw |-> FALSE, result |-> s.result, steps |-> first \o s.steps]
        ELSE IF g.configured /\ ~g.threw
        THEN [threw |-> FALSE, result |-> g.result, steps |-> first]
        ELSE [threw |-> FALSE, result |-> getSmartFallback(message, hist),
              steps |-> first \o <<"rules">>]

\* a variant of the chain without the try block around the Groq call
chatChainUnguarded(g, message, hist, geminiOut) ==
    LET first == IF g.configured THEN <<"groq">> ELSE <<>>
        s == getSmartResponse(message, hist, geminiOut)
    IN  IF g.configured
        THEN [threw |-> g.threw, result |-> g.result, steps |-> first]
        ELSE IF geminiOut.kind # "none"
        THEN [threw |-> FALSE, result |-> s.result, steps |-> first \o s.steps]
        ELSE [threw |-> FALSE, result |-> getSmartFallback(message, hist),
              steps |-> first \o <<"rules">>]

\* handleChat, given what getGroqResponse does (g.configured: this.groq is
\* set): Groq when it is configured, Gemini when it is configured and Groq
\* gave no response, the rule-based responder otherwise.  The exceptions of
\* the two providers are caught; the rule-based responder runs outside any
\* try block.
chatChain(g, message, hist, geminiOut) ==
    LET first == IF g.configured THEN <<"groq">> ELSE <<>>
        s == getSmartResponse(message, hist, geminiOut)
    IN  IF g.configured /\ ~g.threw
        THEN [threw |-> FALSE, result |-> g.result, steps |-> first]
        ELSE IF geminiOut.kind # "none"
        THEN [threw |-> FALSE, result |-> s.result, steps |-> first \o s.steps]
        ELSE [threw |-> FALSE, result |-> getSmartFallback(message, hist),
              steps |-> first \o <<"rules">>]

\* handleChat of the engine with the budget shortcuts
handleChat(message, hist, groqOut, geminiOut) ==
    LET g == getGroqResponse(message, hist, groqOut)
    IN  chatChain([configured |-> groqOut.kind # "none", threw |-> g.threw,
                   asked |-> g.asked, result |-> g.result],
                  message, hist, geminiOut)

\* the messages a user sends, trimmed by the route
ChatMessages == {
    <<"f","r","e","e">>,
    <<"p","a","i","d">>,
    <<"s","h","o","w"," ","m","e"," ","f","r","e","e"," ","t","o","o","l","s">>,
    <<"i"," ","w","a","n","t"," ","t","o"," ","d","e","s","i","g","n"," ","a"," ","l","o","g","o">>,
    <<"i"," ","n","e","e","d"," ","a"," ","f","r","e","e"," ","l","o","g","o"," ","t","o","o","l">>,
    <<"i"," ","w","a","n","t"," ","f","r","e","e"," ","t","o","o","l">>,
    <<"h","i">>,
    <<"i","s"," ","i","t"," ","f","r","e","e">>}

\* the turns a conversation may hold
MaxHistory == 3

\* POST /api/chat, and the client's bookkeeping: the history it carries gains
\* the user's message, and the reply's text when the reply has one.  The
\* outcome keeps what each provider did when it was called (groq: "none",
\* "throws", "answers", or "shortcut" when getGroqResponse returned without
\* calling the completion service; gemini: "none", "throws", "text").
AnswerChatWith(message, groqOut, geminiOut) ==
    LET h == handleChat(message, history, groqOut, geminiOut)
        g == getGroqResponse(message, history, groqOut)
        r == h.result
    IN  /\ chat' = [called |-> TRUE, message |-> message,
                    history |-> history, result |-> r,
                    threw |-> h.threw, steps |-> h.steps,
                    groq |-> IF ~groqKey THEN "none"
                             ELSE IF g.threw THEN "throws"
                             ELSE IF g.asked THEN "answers"
                             ELSE "shortcut",
                    gemini |-> IF "gemini" \in Range(h.steps)
                               THEN geminiOut.kind ELSE "none"]
        /\ history' = IF r.response = Undefined
                      THEN Append(history, Turn("user", message))
                      ELSE history \o <<Turn("user", message),
                                        Turn("assistant", r.response)>>
        /\ UNCHANGED <<discoveryVars, groqKey, geminiKey, disk, logFile, cat,
                       intentVars>>

\* the request with whatever the providers answer
AnswerChat(message) ==
    \E groqOut \in IF groqKey THEN Completions ELSE {NoCompletion} :
    \E geminiOut \in IF geminiKey THEN Completions ELSE {NoCompletion} :
        AnswerChatWith(message, groqOut, geminiOut)

\* a request of a conversation of bounded length
HandleChat(message) ==
    /\ Len(history) < MaxHistory
    /\ AnswerChat(message)

\* the client starts a new conversation
NewConversation ==
    /\ history # <<>>
    /\ history' = <<>>
    /\ chat' = NoRec
    /\ UNCHANGED <<discoveryVars, groqKey, geminiKey, disk, logFile, cat, intentVars>>

NextChat ==
    \/ \E message \in ChatMessages : HandleChat(message)
    \/ NewConversation

\* the conversations do not touch the catalog document
InitChat ==
    Init /\ toolsFile.totalTools = SumLens(InitialCategories, CatKeys)

SpecChat == InitChat /\ [][NextChat]_vars

(***************************************************************************)
(* The engine of services/recommendation.js: the same chain, with a        *)
(* getGroqResponse that asks the completion service for a JSON decision.   *)
(***************************************************************************)

\* What the JSON completion may answer: an exception; a text JSON.parse
\* rejects; a text that parses, with the properties the code reads
\* ("none", Undefined: the property is absent or null; tools is an array
\* of ids or some other value)
JsonCompletion(kind, txt, action, budget, tools, message) ==
    [kind |-> kind, text |-> txt, action |-> action, budget |-> budget,
     tools |-> tools, message |-> message]
RawJson == <<"{",".",".",".","}">>
HereAreTools == <<"H","e","r","e"," ","y","o","u"," ","g","o","!">>
NoIds == [kind |-> "none", ids |-> <<>>]
Ids(ids) == [kind |-> "array", ids |-> ids]
NotAnArray == [kind |-> "other", ids |-> <<>>]
NoJsonCompletion == JsonCompletion("none", <<>>, "none", "none", NoIds, Undefined)
JsonCompletions ==
    {JsonCompletion("throws", <<>>, "none", "none", NoIds, Undefined),
     JsonCompletion("text", SmallTalk, "none", "none", NoIds, Undefined),
     JsonCompletion("json", <<>>, "none", "none", NoIds, Undefined),
     JsonCompletion("json", RawJson, "chat", "none", NoIds, AsksBudget),
     JsonCompletion("json", RawJson, "show_tools", "free",
                    Ids(<< <<"c","a","n","v","a">> >>), HereAreTools),
     JsonCompletion("json", RawJson, "show_tools", "free",
                    Ids(<< <<"c","a","n","v","a">> >>), Undefined),
     JsonCompletion("json", RawJson, "show_tools", "none",
                    Ids(<< <<"c","a","n","v","a">> >>), HereAreTools),
     JsonCompletion("json", RawJson, "show_tools", "premium", NotAnArray,
                    HereAreTools)}

ShowToolsDefault ==
    <<"H","e","r","e"," ","a","r","e"," ","t","h","e"," ","b","e","s","t",
      " ","t","o","o","l","s"," ","f","o","r"," ","y","o","u","!">>
ChatDefault ==
    <<"I","'","m"," ","h","e","r","e"," ","t","o"," ","h","e","l","p"," ",
      "y","o","u"," ","f","i","n","d"," ","t","h","e"," ","p","e","r","f",
      "e","c","t"," ","A","I"," ","t","o","o","l","!"," ","W","h","a","t",
      " ","w","o","u","l","d"," ","y","o","u"," ","l","i","k","e"," ","t",
      "o"," ","c","r","e","a","t","e"," ","o","r"," ","b","u","i","l","d",
      "?">>

ShowTools(budget, toolIds, response) ==
    [type |-> "show_tools", budget |-> budget, originalQuery |-> Undefined,
     response |-> response, toolIds |-> toolIds]

\* getGroqResponse of services/recommendation.js: the completion is always
\* asked and its exception propagates; content || '{}'; a text that does
\* not parse, or tools.join throwing on a value that is no array, is caught
\* and the raw text is the reply
getGroqResponseJson(message, hist, out) ==
    LET responseText == IF out.text = <<>> THEN <<"{","}">> ELSE out.text
    IN  IF out.kind = "throws"
        THEN [threw |-> TRUE, asked |-> TRUE, result |-> Reply("none", <<>>)]
        ELSE IF out.kind = "text"
        THEN [threw |-> FALSE, asked |-> TRUE, result |-> Reply("chat", responseText)]
        ELSE IF out.action = "show_tools" /\ out.budget # "none"
                /\ out.tools.kind # "none"
        THEN IF out.tools.kind # "array"
             THEN [threw |-> FALSE, asked |-> TRUE,
                   result |-> Reply("chat", responseText)]
             ELSE [threw |-> FALSE, asked |-> TRUE,
                   result |-> ShowTools(out.budget, out.tools.ids,
                                        OrElse(out.message, ShowToolsDefault))]
        ELSE [threw |-> FALSE, asked |-> TRUE,
              result |-> Reply("chat", OrElse(out.message, ChatDefault))]

handleChatJson(message, hist, groqOut, geminiOut) ==
    LET g == getGroqResponseJson(message, hist, groqOut)
    IN  chatChain([configured |-> groqOut.kind # "none", threw |-> g.threw,
                   asked |-> g.asked, result |-> g.result],
                  message, hist, geminiOut)

\* POST /api/chat of that engine, and the client's bookkeeping
HandleChatJson(message) ==
    /\ Len(history) < MaxHistory
    /\ \E groqOut \in IF groqKey THEN JsonCompletions ELSE {NoJsonCompletion} :
       \E geminiOut \in IF geminiKey THEN Completions ELSE {NoCompletion} :
          LET h == handleChatJson(message, history, groqOut, geminiOut)
              g == getGroqResponseJson(message, history, groqOut)
          IN  /\ chat' = [called |-> TRUE, message |-> message,
                          history |-> history, result |-> h.result,
                          threw |-> h.threw, steps |-> h.steps,
                          groq |-> IF ~groqKey THEN "none"
                                   ELSE IF g.threw THEN "throws"
                                   ELSE "answers",
                          gemini |-> IF "gemini" \in Range(h.steps)
                                     THEN geminiOut.kind ELSE "none"]
              /\ history' = history \o <<Turn("user", message),
                                          Turn("assistant", h.result.response)>>
    /\ UNCHANGED <<discoveryVars, groqKey, geminiKey, disk, logFile, cat, intentVars>>

NextChatJson ==
    \/ \E message \in ChatMessages : HandleChatJson(message)
    \/ NewConversation

SpecChatJson == InitChat /\ [][NextChatJson]_vars

(***************************************************************************)
(* DecyIntelligence (services/intelligence.js)                             *)
(***************************************************************************)

\* buildIntentMap: the intent table, in its order (the context texts, which
\* no decision reads, are left out)
intentMap == <<
    [category |-> "app_building",
     intents |-> <<
        <<"p","o","r","t","f","o","l","i","o">>,
        <<"p","e","r","s","o","n","a","l"," ","w","e","b","s","i","t","e">>,
        <<"p","e","r","s","o","n","a","l"," ","s","i","t","e">>,
        <<"s","h","o","w","c","a","s","e"," ","m","y"," ","w","o","r","k">>,
        <<"o","n","l","i","n","e"," ","p","r","e","s","e","n","c","e">>>>,
     priority |-> <<
        <<"l","o","v","a","b","l","e">>, <<"b","o","l","t">>, <<"v","0">>>>],
    [category |-> "app_building",
     intents |-> <<
        <<"l","a","n","d","i","n","g"," ","p","a","g","e">>, <<"s","a","a","s">>,
        <<"s","t","a","r","t","u","p"," ","w","e","b","s","i","t","e">>,
        <<"p","r","o","d","u","c","t"," ","p","a","g","e">>,
        <<"b","u","s","i","n","e","s","s"," ","w","e","b","s","i","t","e">>>>,
     priority |-> <<
        <<"l","o","v","a","b","l","e">>, <<"b","o","l","t">>, <<"v","0">>>>],
    [category |-> "app_building",
     intents |-> <<
        <<"a","p","p">>, <<"m","o","b","i","l","e"," ","a","p","p">>,
        <<"w","e","b"," ","a","p","p">>, <<"b","u","i","l","d"," ","a","p","p">>,
        <<"c","r","e","a","t","e"," ","a","p","p">>,
        <<"d","e","v","e","l","o","p"," ","a","p","p">>, <<"m","v","p">>,
        <<"p","r","o","t","o","t","y","p","e">>>>,
     priority |-> <<
        <<"l","o","v","a","b","l","e">>, <<"b","o","l","t">>, <<"r","e","p","l","i","t">>>>],
    [category |-> "design",
     intents |-> <<
        <<"l","o","g","o">>, <<"b","r","a","n","d"," ","i","d","e","n","t","i","t","y">>,
        <<"b","r","a","n","d","i","n","g">>, <<"b","r","a","n","d"," ","k","i","t">>,
        <<"c","o","m","p","a","n","y"," ","l","o","g","o">>>>,
     priority |-> <<
        <<"l","o","o","k","a">>, <<"c","a","n","v","a","_","d","e","s","i","g","n">>,
        <<"k","i","t","t","l">>>>],
    [category |-> "design",
     intents |-> <<
        <<"p","o","s","t","e","r">>, <<"f","l","y","e","r">>, <<"b","a","n","n","e","r">>,
        <<"s","o","c","i","a","l"," ","m","e","d","i","a"," ","p","o","s","t">>,
        <<"i","n","s","t","a","g","r","a","m"," ","p","o","s","t">>,
        <<"t","h","u","m","b","n","a","i","l">>, <<"c","o","v","e","r"," ","i","m","a","g","e">>,
        <<"m","a","r","k","e","t","i","n","g"," ","m","a","t","e","r","i","a","l">>>>,
     priority |-> <<
        <<"c","a","n","v","a","_","d","e","s","i","g","n">>, <<"k","i","t","t","l">>,
        <<"f","i","g","m","a">>>>],
    [category |-> "design",
     intents |-> <<
        <<"u","i"," ","d","e","s","i","g","n">>, <<"w","i","r","e","f","r","a","m","e">>,
        <<"m","o","c","k","u","p">>,
        <<"p","r","o","t","o","t","y","p","e"," ","d","e","s","i","g","n">>,
        <<"u","s","e","r"," ","i","n","t","e","r","f","a","c","e">>, <<"f","i","g","m","a">>>>,
     priority |-> <<
        <<"f","i","g","m","a">>, <<"u","i","z","a","r","d">>,
        <<"c","a","n","v","a","_","d","e","s","i","g","n">>>>],
    [category |-> "image_generation",
     intents |-> <<
        <<"g","e","n","e","r","a","t","e"," ","i","m","a","g","e">>,
        <<"c","r","e","a","t","e"," ","i","m","a","g","e">>, <<"a","i"," ","a","r","t">>,
        <<"a","r","t","w","o","r","k">>, <<"i","l","l","u","s","t","r","a","t","i","o","n">>,
        <<"p","i","c","t","u","r","e">>,
        <<"i","m","a","g","e"," ","g","e","n","e","r","a","t","i","o","n">>,
        <<"a","i"," ","i","m","a","g","e">>, <<"d","r","a","w">>>>,
     priority |-> <<
        <<"i","d","e","o","g","r","a","m">>, <<"l","e","o","n","a","r","d","o">>,
        <<"m","i","d","j","o","u","r","n","e","y">>>>],
    [category |-> "image_editing",
     intents |-> <<
        <<"e","d","i","t"," ","p","h","o","t","o">>,
        <<"r","e","m","o","v","e"," ","b","a","c","k","g","r","o","u","n","d">>,
        <<"e","n","h","a","n","c","e"," ","p","h","o","t","o">>,
        <<"p","h","o","t","o"," ","e","d","i","t","i","n","g">>, <<"r","e","t","o","u","c","h">>,
        <<"u","p","s","c","a","l","e"," ","i","m","a","g","e">>>>,
     priority |-> <<
        <<"c","a","n","v","a">>, <<"r","e","m","o","v","e","_","b","g">>,
        <<"c","l","i","p","d","r","o","p">>>>],
    [category |-> "video_creation",
     intents |-> <<
        <<"v","i","d","e","o">>, <<"e","d","i","t"," ","v","i","d","e","o">>, <<"r","e","e","l">>,
        <<"s","h","o","r","t">>, <<"y","o","u","t","u","b","e">>, <<"t","i","k","t","o","k">>,
        <<"c","l","i","p">>, <<"m","o","n","t","a","g","e">>>>,
     priority |-> <<
        <<"c","a","p","c","u","t">>, <<"d","e","s","c","r","i","p","t">>,
        <<"i","n","v","i","d","e","o">>>>],
    [category |-> "video_creation",
     intents |-> <<
        <<"g","e","n","e","r","a","t","e"," ","v","i","d","e","o">>,
        <<"t","e","x","t"," ","t","o"," ","v","i","d","e","o">>,
        <<"a","i"," ","v","i","d","e","o">>, <<"a","n","i","m","a","t","e">>,
        <<"m","o","t","i","o","n">>, <<"v","i","d","e","o"," ","f","r","o","m"," ","t","e","x","t">>>>,
     priority |-> <<
        <<"r","u","n","w","a","y">>, <<"p","i","k","a">>, <<"i","n","v","i","d","e","o">>>>],
    [category |-> "video_creation",
     intents |-> <<
        <<"t","a","l","k","i","n","g"," ","h","e","a","d">>,
        <<"a","v","a","t","a","r"," ","v","i","d","e","o">>,
        <<"s","p","o","k","e","s","p","e","r","s","o","n">>,
        <<"v","i","r","t","u","a","l"," ","p","r","e","s","e","n","t","e","r">>>>,
     priority |-> <<
        <<"h","e","y","g","e","n">>, <<"s","y","n","t","h","e","s","i","a">>, <<"d","-","i","d">>>>],
    [category |-> "writing",
     intents |-> <<
        <<"w","r","i","t","e">>, <<"b","l","o","g">>, <<"a","r","t","i","c","l","e">>,
        <<"e","s","s","a","y">>, <<"c","o","n","t","e","n","t">>,
        <<"c","o","p","y","w","r","i","t","i","n","g">>, <<"e","m","a","i","l">>,
        <<"m","a","r","k","e","t","i","n","g"," ","c","o","p","y">>>>,
     priority |-> <<
        <<"n","o","t","i","o","n","_","a","i">>, <<"c","o","p","y","_","a","i">>,
        <<"j","a","s","p","e","r">>>>],
    [category |-> "writing",
     intents |-> <<
        <<"g","r","a","m","m","a","r">>, <<"p","r","o","o","f","r","e","a","d">>,
        <<"s","p","e","l","l","i","n","g">>, <<"e","d","i","t","i","n","g"," ","t","e","x","t">>,
        <<"p","a","r","a","p","h","r","a","s","e">>, <<"r","e","w","r","i","t","e">>>>,
     priority |-> <<
        <<"g","r","a","m","m","a","r","l","y">>, <<"q","u","i","l","l","b","o","t">>,
        <<"w","o","r","d","t","u","n","e">>>>],
    [category |-> "coding_assistance",
     intents |-> <<
        <<"c","o","d","e">>, <<"p","r","o","g","r","a","m","m","i","n","g">>,
        <<"d","e","b","u","g">>, <<"d","e","v","e","l","o","p","e","r">>,
        <<"c","o","d","i","n","g"," ","a","s","s","i","s","t","a","n","t">>,
        <<"a","u","t","o","c","o","m","p","l","e","t","e">>, <<"c","o","p","i","l","o","t">>>>,
     priority |-> <<
        <<"c","u","r","s","o","r">>, <<"g","i","t","h","u","b","_","c","o","p","i","l","o","t">>,
        <<"c","h","a","t","g","p","t">>>>],
    [category |-> "presentation",
     intents |-> <<
        <<"p","r","e","s","e","n","t","a","t","i","o","n">>, <<"s","l","i","d","e","s">>,
        <<"p","i","t","c","h"," ","d","e","c","k">>, <<"p","p","t">>,
        <<"p","o","w","e","r","p","o","i","n","t">>, <<"k","e","y","n","o","t","e">>,
        <<"s","l","i","d","e"," ","d","e","c","k">>>>,
     priority |-> <<
        <<"g","a","m","m","a">>, <<"t","o","m","e">>,
        <<"b","e","a","u","t","i","f","u","l","_","a","i">>>>],
    [category |-> "audio",
     intents |-> <<
        <<"v","o","i","c","e">>, <<"v","o","i","c","e","o","v","e","r">>,
        <<"t","e","x","t"," ","t","o"," ","s","p","e","e","c","h">>,
        <<"n","a","r","r","a","t","i","o","n">>, <<"d","u","b","b","i","n","g">>,
        <<"v","o","i","c","e"," ","c","l","o","n","e">>>>,
     priority |-> <<
        <<"e","l","e","v","e","n","l","a","b","s">>, <<"m","u","r","f">>,
        <<"p","l","a","y","_","h","t">>>>],
    [category |-> "music_generation",
     intents |-> <<
        <<"m","u","s","i","c">>, <<"s","o","n","g">>, <<"b","e","a","t">>,
        <<"s","o","u","n","d","t","r","a","c","k">>, <<"j","i","n","g","l","e">>,
        <<"c","o","m","p","o","s","e">>>>,
     priority |-> <<
        <<"s","u","n","o">>, <<"u","d","i","o">>, <<"a","i","v","a">>>>],
    [category |-> "productivity",
     intents |-> <<
        <<"m","e","e","t","i","n","g"," ","n","o","t","e","s">>,
        <<"t","r","a","n","s","c","r","i","b","e">>,
        <<"s","u","m","m","a","r","i","z","e"," ","m","e","e","t","i","n","g">>,
        <<"m","e","e","t","i","n","g"," ","s","u","m","m","a","r","y">>>>,
     priority |-> <<
        <<"o","t","t","e","r">>, <<"f","i","r","e","f","l","i","e","s">>,
        <<"g","r","a","n","o","l","a">>>>],
    [category |-> "research",
     intents |-> <<
        <<"r","e","s","e","a","r","c","h">>,
        <<"f","i","n","d"," ","i","n","f","o","r","m","a","t","i","o","n">>,
        <<"a","c","a","d","e","m","i","c">>, <<"p","a","p","e","r","s">>, <<"s","t","u","d","y">>>>,
     priority |-> <<
        <<"p","e","r","p","l","e","x","i","t","y">>, <<"e","l","i","c","i","t">>,
        <<"c","o","n","s","e","n","s","u","s">>>>],
    [category |-> "design",
     intents |-> <<
        <<"r","e","s","u","m","e">>, <<"c","v">>,
        <<"c","o","v","e","r"," ","l","e","t","t","e","r">>,
        <<"j","o","b"," ","a","p","p","l","i","c","a","t","i","o","n">>>>,
     priority |-> <<
        <<"c","a","n","v","a","_","d","e","s","i","g","n">>, <<"l","o","v","a","b","l","e">>,
        <<"n","o","t","i","o","n","_","a","i">>>>]>>

\* the guidance signals of detectToolGuidance
guidanceSignals == <<
    <<"h","o","w"," ","t","o"," ","u","s","e">>,
    <<"h","o","w"," ","t","o"," ","c","r","e","a","t","e">>,
    <<"h","o","w"," ","t","o"," ","b","u","i","l","d">>,
    <<"h","o","w"," ","t","o"," ","m","a","k","e">>,
    <<"h","o","w"," ","d","o"," ","i"," ","u","s","e">>,
    <<"h","o","w"," ","d","o","e","s">>,
    <<"g","u","i","d","e"," ","m","e">>,
    <<"t","e","a","c","h"," ","m","e">>,
    <<"h","e","l","p"," ","m","e"," ","u","s","e">>,
    <<"s","t","e","p","s"," ","t","o"," ","u","s","e">>,
    <<"t","u","t","o","r","i","a","l">>,
    <<"h","o","w"," ","t","o"," ","s","t","a","r","t"," ","w","i","t","h">>,
    <<"g","e","t","t","i","n","g"," ","s","t","a","r","t","e","d">>,
    <<"u","s","i","n","g"," ","t","h","e">>,
    <<"u","s","i","n","g"," ","i","t">>,
    <<"h","o","w"," ","c","a","n"," ","i"," ","u","s","e">>,
    <<"w","h","a","t"," ","c","a","n"," ","i"," ","d","o"," ","w","i","t","h">>,
    <<"t","i","p","s"," ","f","o","r">>,
    <<"h","o","w"," ","t","o"," ","g","e","t"," ","s","t","a","r","t","e","d">>>>

\* s.split(' '): the pieces between single spaces
RECURSIVE splitSpace(_)
splitSpace(s) ==
    IF \A i \in 1..Len(s) : s[i] # " " THEN <<s>>
    ELSE LET a == CHOOSE i \in 1..Len(s) :
                    s[i] = " " /\ \A j \in 1..(i - 1) : s[j] # " "
         IN  <<SubSeq(s, 1, a - 1)>> \o splitSpace(SubSeq(s, a + 1, Len(s)))

\* pieces.join(' ')
RECURSIVE joinSpace(_)
joinSpace(pieces) ==
    IF pieces = <<>> THEN <<>>
    ELSE IF Len(pieces) = 1 THEN pieces[1]
    ELSE pieces[1] \o <<" ">> \o joinSpace(Tail(pieces))

\* flattenTools: every tool with its category key and its searchable text;
\* the model's tools carry no whySuitsYou and no limits, which join as ''
flattenTools(data) ==
    LET flat(k) ==
            [i \in 1..Len(data.categories[k]) |->
                [id |-> data.categories[k][i].id,
                 name |-> data.categories[k][i].name,
                 ease |-> data.categories[k][i].ease,
                 categoryKey |-> k,
                 searchText |-> toLowerCase(joinSpace(
                     <<data.categories[k][i].name, data.categories[k][i].bestFor,
                       <<>>, <<>>>> \o CatKeywords(k)))]]
        F[n \in 0..Len(CatOrder)] ==
            IF n = 0 THEN <<>> ELSE F[n - 1] \o flat(CatOrder[n])
    IN  F[Len(CatOrder)]

\* what analyzeIntent returns; the confidence in twentieths (1.0 is 20, 0.3
\* is 6); score is the best pattern's, for the record
IntentResult(matched, isGuidance, category, confidence20, score, tools) ==
    [called |-> TRUE, matched |-> matched, isGuidance |-> isGuidance,
     category |-> category, confidence20 |-> confidence20, score |-> score,
     tools |-> tools, threw |-> FALSE]

\* analyzeIntent throws a TypeError instead of returning
IntentThrew ==
    [IntentResult(FALSE, FALSE, "null", 0, 0, <<>>) EXCEPT !.threw = TRUE]

\* detectToolGuidance: a guidance signal and the name or the id of a tool,
\* the first one of the flat list; a sequence of at most one result.  The
\* loop calls tool.name.toLowerCase() on each tool before it looks at the
\* id, so it throws at an entry without a name that it reaches
detectToolGuidance(q, flat) ==
    LET nameless == {i \in 1..Len(flat) : flat[i].name = Undefined}
        hits == {i \in 1..Len(flat) :
                    /\ i \notin nameless
                    /\ \/ includes(q, toLowerCase(flat[i].name))
                       \/ includes(q, toLowerCase(flat[i].id))}
        first == CHOOSE i \in hits \cup nameless :
                    \A j \in hits \cup nameless : i <= j
    IN  IF ~\E i \in 1..Len(guidanceSignals) : includes(q, guidanceSignals[i])
        THEN <<>>
        ELSE IF hits \cup nameless = {} THEN <<>>
        ELSE IF first \in nameless THEN <<IntentThrew>>
        ELSE <<IntentResult(TRUE, TRUE, flat[first].categoryKey, 20, 0,
                            <<flat[first].id>>)>>

\* a variant that gives an included phrase no more than one of its words
intentScoreWeak(q, words, phrase) ==
    (IF includes(q, phrase) THEN 5 ELSE 0)
    + 5 * Cardinality({i \in 1..Len(splitSpace(phrase)) :
                          contains(words, splitSpace(phrase)[i])})

\* the score analyzeIntent gives one intent phrase: 20 when the query
\* includes it, 5 for each of its words that is a word of the query
intentScore(q, words, phrase) ==
    LET iws == splitSpace(phrase)
    IN  (IF includes(q, phrase) THEN 20 ELSE 0)
        + 5 * Cardinality({i \in 1..Len(iws) : contains(words, iws[i])})

\* the score of a pattern: the sum over its phrases
patternScore(q, words, pattern) ==
    LET S[n \in 0..Len(pattern.intents)] ==
            IF n = 0 THEN 0
            ELSE S[n - 1] + intentScore(q, words, pattern.intents[n])
    IN  S[Len(pattern.intents)]

\* a variant that keeps the category's other tools in the order of the
\* catalog
getRelevantToolsUnsorted(pattern, flat) ==
    LET prio == SelectSeq(pattern.priority,
                          LAMBDA id : \E i \in 1..Len(flat) : flat[i].id = id)
        others == SelectSeq(flat,
                      LAMBDA t : t.categoryKey = pattern.category
                                 /\ ~contains(prio, t.id))
        room == IF Len(prio) >= 6 THEN 0 ELSE 6 - Len(prio)
    IN  prio \o [i \in 1..(IF Len(others) < room THEN Len(others) ELSE room) |->
                    others[i].id]
\* getRelevantTools: the pattern's priority tools that exist, then the
\* category's other tools, easiest first, up to six in all
getRelevantTools(pattern, flat) ==
    LET prio == SelectSeq(pattern.priority,
                          LAMBDA id : \E i \in 1..Len(flat) : flat[i].id = id)
        P[n \in 0..Len(prio)] ==
            IF n = 0 THEN <<>>
            ELSE IF contains(P[n - 1], prio[n]) THEN P[n - 1]
            ELSE Append(P[n - 1], prio[n])
        first == P[Len(prio)]
        others == sortByEase(SelectSeq(flat,
                      LAMBDA t : t.categoryKey = pattern.category
                                 /\ ~contains(first, t.id)))
        room == IF Len(first) >= 6 THEN 0 ELSE 6 - Len(first)
    IN  first \o [i \in 1..(IF Len(others) < room THEN Len(others) ELSE room) |->
                     others[i].id]

\* the score searchAllTools gives a tool
searchScore(tool, queryWords) ==
    LET S[n \in 0..Len(queryWords)] ==
            IF n = 0 THEN 0
            ELSE S[n - 1]
                 + (IF Len(queryWords[n]) < 3 THEN 0
                    ELSE (IF includes(tool.searchText, queryWords[n]) THEN 5 ELSE 0)
                         + (IF includes(toLowerCase(tool.name), queryWords[n])
                            THEN 15 ELSE 0))
    IN  S[Len(queryWords)]

\* sort((a, b) => b.matchScore - a.matchScore): stable, best first
RECURSIVE sortByScore(_, _)
sortByScore(seq, queryWords) ==
    IF seq = <<>> THEN <<>>
    ELSE LET sc(i) == searchScore(seq[i], queryWords)
             m == CHOOSE i \in 1..Len(seq) :
                    /\ \A j \in 1..Len(seq) : sc(j) <= sc(i)
                    /\ \A j \in 1..(i - 1) : sc(j) < sc(i)
         IN  <<seq[m]>> \o
             sortByScore(SubSeq(seq, 1, m - 1) \o SubSeq(seq, m + 1, Len(seq)),
                         queryWords)

\* a variant that keeps the tools that do not score
searchAllToolsUnscored(q, flat) ==
    [i \in 1..(IF Len(flat) < 6 THEN Len(flat) ELSE 6) |-> flat[i].id]

\* searchAllTools: the tools that score, best first, six at most
searchAllTools(q, flat) ==
    LET queryWords == splitWS(toLowerCase(q))
        scored == sortByScore(SelectSeq(flat,
                      LAMBDA t : searchScore(t, queryWords) > 0), queryWords)
    IN  [i \in 1..(IF Len(scored) < 6 THEN Len(scored) ELSE 6) |-> scored[i].id]

\* a variant that takes the last pattern of the highest score
bestPatternLast(q, words) ==
    LET sc == [i \in 1..Len(intentMap) |-> patternScore(q, words, intentMap[i])]
        best == {i \in 1..Len(intentMap) :
                    /\ sc[i] > 0
                    /\ \A j \in 1..Len(intentMap) :
                          sc[j] <= sc[i] /\ (j > i => sc[j] < sc[i])}
    IN  IF best = {} THEN [index |-> 0, score |-> 0]
        ELSE [index |-> CHOOSE i \in best : TRUE,
              score |-> sc[CHOOSE i \in best : TRUE]]

\* the first pattern of the highest score, 0 when no pattern scores
bestPattern(q, words) ==
    LET sc == [i \in 1..Len(intentMap) |-> patternScore(q, words, intentMap[i])]
        best == {i \in 1..Len(intentMap) :
                    /\ sc[i] > 0
                    /\ \A j \in 1..Len(intentMap) :
                          sc[j] <= sc[i] /\ (j < i => sc[j] < sc[i])}
    IN  IF best = {} THEN [index |-> 0, score |-> 0]
        ELSE [index |-> CHOOSE i \in best : TRUE,
              score |-> sc[CHOOSE i \in best : TRUE]]

\* searchAllTools calls tool.name.toLowerCase() for every tool and every
\* query word of three characters or more
searchThrows(q, flat) ==
    /\ \E i \in 1..Len(flat) : flat[i].name = Undefined
    /\ \E w \in Range(splitWS(toLowerCase(q))) : Len(w) >= 3

\* analyzeIntent
analyzeIntent(userMessage, flat) ==
    LET q == trim(toLowerCase(userMessage))
        guidance == detectToolGuidance(q, flat)
        best == bestPattern(q, splitWS(q))
        fallbackTools == searchAllTools(q, flat)
    IN  IF guidance # <<>> THEN guidance[1]
        ELSE IF best.index # 0 /\ best.score >= 5
        THEN IntentResult(TRUE, FALSE, intentMap[best.index].category,
                          IF best.score < 20 THEN best.score ELSE 20, best.score,
                          getRelevantTools(intentMap[best.index], flat))
        ELSE IF searchThrows(q, flat) THEN IntentThrew
        ELSE IF Len(fallbackTools) > 0
        THEN IntentResult(TRUE, FALSE, "mixed", 6, best.score, fallbackTools)
        ELSE IntentResult(FALSE, FALSE, "null", 0, best.score, <<>>)

\* the pieces the messages are made of, and how many a message holds
IntentVocabulary == {
    <<"l","o","g","o">>,
    <<"A","p","p">>,
    <<"h","a","p","p","y">>,
    <<"h","o","w"," ","t","o"," ","u","s","e">>,
    <<"c","a","n","v","a">>,
    <<"m","y">>,
    <<"z","z","z">>}
MaxWords == 3

IntentMessages ==
    {joinSpace(ws) : ws \in UNION {[1..n -> IntentVocabulary] : n \in 1..MaxWords}}

\* the intent matcher is asked about the message
AnalyzeIntent ==
    /\ ~intent.called
    /\ intent' = analyzeIntent(query, flattenTools(engineTools))
    /\ UNCHANGED <<discoveryVars, groqKey, geminiKey, disk, logFile, cat, chatVars, query>>

\* the matcher holds no state between two messages: one message per behaviour
InitIntent ==
    /\ toolsFile = [categories |-> InitialCategories,
                    totalTools |-> SumLens(InitialCategories, CatKeys)]
    /\ discovered = <<>>
    /\ engineTools = toolsFile
    /\ groqKey = FALSE
    /\ geminiKey = FALSE
    /\ disk = "refuses"
    /\ logFile = "ok"
    /\ cat = NoRec
    /\ task = [t \in Tasks |-> IdleTask]
    /\ commits = 0
    /\ rec = NoRec
    /\ history = <<>>
    /\ chat = NoRec
    /\ query \in IntentMessages
    /\ intent = NoRec

NextIntent == AnalyzeIntent

SpecIntent == InitIntent /\ [][NextIntent]_vars

(***************************************************************************)
(* The engine's keyword fallback, asked without a category                 *)
(***************************************************************************)

\* the pieces the queries are made of: a category keyword of each category,
\* a tool's name, an intent phrase that is no keyword, a word nothing
\* knows, and a fragment of two keywords
FallbackVocabulary == {<<"c","o","d","e">>, <<"l","o","g","o">>, <<"C","a","n","v","a">>, <<"a","p","p">>, <<"z","z","z">>, <<"d","e">>}

FallbackQueries ==
    {joinSpace(ws) : ws \in UNION {[1..n -> FallbackVocabulary] : n \in 1..2}}

\* the catalog as shipped; the Gemini key is set or not
InitFallback ==
    /\ toolsFile = [categories |-> InitialCategories,
                    totalTools |-> SumLens(InitialCategories, CatKeys)]
    /\ discovered = <<>>
    /\ engineTools = toolsFile
    /\ groqKey = FALSE
    /\ geminiKey \in BOOLEAN
    /\ disk = "refuses"
    /\ logFile = "ok"
    /\ cat = NoRec
    /\ task = [t \in Tasks |-> IdleTask]
    /\ commits = 0
    /\ rec = NoRec
    /\ history = <<>>
    /\ chat = NoRec
    /\ query = <<>>
    /\ intent = NoRec

NextFallback ==
    \/ \E q \in FallbackQueries, b \in Budgets :
          GetRecommendations(q, b, NoCategory)
    \/ Restart

SpecFallback == InitFallback /\ [][NextFallback]_vars
(***************************************************************************)
(* The engine on a catalog one of whose categories holds no tool           *)
(***************************************************************************)

\* the shipped catalog with the tools of category k taken out: the
\* category stays, with its keywords
WithoutToolsOf(k) == [c \in CatKeys |-> IF c = k THEN <<>> ELSE InitialCategories[c]]

EmptyQueries == {<<"c","o","d","e">>, <<"a"," ","l","o","g","o">>, <<"h","i">>, <<"d","e","s","i","g","n"," ","c","o","d","e">>}
EmptyCategoryArgs == {NoCategory} \cup CatKeys

InitEmpty ==
    /\ \E k \in CatKeys :
          toolsFile = [categories |-> WithoutToolsOf(k),
                       totalTools |-> SumLens(WithoutToolsOf(k), CatKeys)]
    /\ discovered = <<>>
    /\ engineTools = toolsFile
    /\ groqKey = FALSE
    /\ geminiKey \in BOOLEAN
    /\ disk = "refuses"
    /\ logFile = "ok"
    /\ cat = NoRec
    /\ task = [t \in Tasks |-> IdleTask]
    /\ commits = 0
    /\ rec = NoRec
    /\ history = <<>>
    /\ chat = NoRec
    /\ query = <<>>
    /\ intent = NoRec

NextEmpty ==
    \/ \E q \in EmptyQueries, b \in Budgets, c \in EmptyCategoryArgs :
          GetRecommendations(q, b, c)
    \/ Restart

SpecEmpty == InitEmpty /\ [][NextEmpty]_vars
(***************************************************************************)
(* The conversation policy on the histories a client may send              *)
(***************************************************************************)

\* the number of history entries handed to the completion: slice(-8)
Window == 8

\* history.slice(-8)
lastWindow(hist) ==
    IF Len(hist) <= Window THEN hist
    ELSE SubSeq(hist, Len(hist) - Window + 1, Len(hist))

\* n times the same turn
Repeat(turn, n) == [i \in 1..n |-> turn]

\* the histories of the requests: an opening turn, then up to Window turns
\* of one kind, so that the opening turn is or is not among the last Window
\* entries
WindowOpenings ==
    {Turn("assistant", AsksBudget), Turn("assistant", SmallTalk),
     Turn("assistant", <<"T","r","y"," ","C","a","n","v","a",".">>), Turn("user", <<"a"," ","p","o","s","t","e","r">>)}
WindowFillers ==
    {Turn("user", <<"o","k">>), Turn("assistant", SmallTalk)}
WindowHistories ==
    {<<>>} \cup
    {<<o>> \o Repeat(f, n) : o \in WindowOpenings, f \in WindowFillers,
                             n \in {0, 1, Window - 1, Window}}
WindowMessages == {<<"f","r","e","e">>, <<"i","s"," ","i","t"," ","f","r","e","e">>, <<"h","i">>}

\* POST /api/chat with the history of the request's body: one request
ChatWithHistory(message) ==
    /\ ~chat.called
    /\ AnswerChat(message)

InitWindow ==
    /\ toolsFile = [categories |-> InitialCategories,
                    totalTools |-> SumLens(InitialCategories, CatKeys)]
    /\ discovered = <<>>
    /\ engineTools = toolsFile
    /\ groqKey \in BOOLEAN
    /\ geminiKey \in BOOLEAN
    /\ disk = "refuses"
    /\ logFile = "ok"
    /\ cat = NoRec
    /\ task = [t \in Tasks |-> IdleTask]
    /\ commits = 0
    /\ rec = NoRec
    /\ history \in WindowHistories
    /\ chat = NoRec
    /\ query = <<>>
    /\ intent = NoRec

NextWindow == \E message \in WindowMessages : ChatWithHistory(message)

SpecWindow == InitWindow /\ [][NextWindow]_vars
(***************************************************************************)
(* The engine's requests with their awaits.  A request is suspended at     *)
(* the call of a completion service; the service answers (a text, or an    *)
(* exception) or never does.  No call of a completion service is given a   *)
(* timeout, and nothing else resumes a suspended request.                  *)
(***************************************************************************)

\* whether the service will answer the call
Fates == {"answers", "never"}

\* a request to /api/recommend suspended at model.generateContent
AwaitingGemini(userQuery, budgetType, fate) ==
    [called |-> FALSE, at |-> "gemini", query |-> userQuery,
     budget |-> budgetType, fate |-> fate]

\* a request to /api/chat suspended at the call of a provider
AwaitingProvider(at, message, fate) ==
    [called |-> FALSE, at |-> at, message |-> message, fate |-> fate]

RecSuspended == rec # NoRec /\ ~rec.called
ChatSuspended == chat # NoRec /\ ~chat.called

\* getRecommendations without a category, up to its await: Gemini is asked
\* when it is configured, and the keyword fallback answers otherwise
CallGetRecommendations(userQuery, budgetType) ==
    /\ rec = NoRec
    /\ IF geminiKey
       THEN \E fate \in Fates : rec' = AwaitingGemini(userQuery, budgetType, fate)
       ELSE rec' = Answered(userQuery, budgetType, NoCategory, NoGemini)
    /\ UNCHANGED <<toolsFile, discovered, engineTools, task, commits, groqKey,
                   geminiKey, disk, logFile, cat, chatVars, intentVars>>

\* model.generateContent returns or throws
GeminiReturn ==
    /\ RecSuspended
    /\ rec.fate = "answers"
    /\ \E out \in GeminiOutcomes :
          rec' = Answered(rec.query, rec.budget, NoCategory, out)
    /\ UNCHANGED <<toolsFile, discovered, engineTools, task, commits, groqKey,
                   geminiKey, disk, logFile, cat, chatVars, intentVars>>

\* handleChat up to its first await: Groq's completion unless a budget
\* shortcut answers, else Gemini's, else the rule-based responder
CallHandleChat(message) ==
    /\ chat = NoRec
    /\ history = <<>>
    /\ IF groqKey /\ getGroqResponse(message, history, Completion("text", <<>>)).asked
       THEN /\ \E fate \in Fates : chat' = AwaitingProvider("groq", message, fate)
            /\ UNCHANGED <<history, discoveryVars, groqKey, geminiKey, disk,
                           logFile, cat, intentVars>>
       ELSE IF ~groqKey /\ geminiKey
       THEN /\ \E fate \in Fates : chat' = AwaitingProvider("gemini", message, fate)
            /\ UNCHANGED <<history, discoveryVars, groqKey, geminiKey, disk,
                           logFile, cat, intentVars>>
       ELSE AnswerChat(message)

\* groq.chat.completions.create returns or throws: the reply, or on an
\* exception Gemini's call when it is configured, the rules otherwise
GroqChatReturn ==
    /\ ChatSuspended
    /\ chat.at = "groq" /\ chat.fate = "answers"
    /\ \E groqOut \in Completions :
          IF groqOut.kind = "throws" /\ geminiKey
          THEN /\ \E fate \in Fates :
                     chat' = AwaitingProvider("gemini", chat.message, fate)
               /\ UNCHANGED <<history, discoveryVars, groqKey, geminiKey, disk,
                              logFile, cat, intentVars>>
          ELSE \E geminiOut \in IF geminiKey THEN Completions ELSE {NoCompletion} :
                  AnswerChatWith(chat.message, groqOut, geminiOut)

\* model.generateContent of getSmartResponse returns or throws
GeminiChatReturn ==
    /\ ChatSuspended
    /\ chat.at = "gemini" /\ chat.fate = "answers"
    /\ \E geminiOut \in Completions :
          AnswerChatWith(chat.message,
                         IF groqKey THEN Completion("throws", <<>>) ELSE NoCompletion,
                         geminiOut)

\* the client has its answer and may send its next request, a chat
\* request being the first of a new conversation
NextRequest ==
    /\ \/ rec # NoRec /\ rec.called /\ rec' = NoRec /\ UNCHANGED chatVars
       \/ /\ chat # NoRec /\ chat.called
          /\ chat' = NoRec /\ history' = <<>> /\ UNCHANGED rec
    /\ UNCHANGED <<toolsFile, discovered, engineTools, task, commits, groqKey,
                   geminiKey, disk, logFile, cat, intentVars>>

HangQueries == {<<"c","o","d","e">>, <<"h","i">>}
HangMessages == {<<"h","i">>, <<"f","r","e","e">>, <<"i"," ","n","e","e","d"," ","a"," ","f","r","e","e"," ","l","o","g","o"," ","t","o","o","l">>}

NextHang ==
    \/ \E q \in HangQueries, b \in Budgets : CallGetRecommendations(q, b)
    \/ GeminiReturn
    \/ \E message \in HangMessages : CallHandleChat(message)
    \/ GroqChatReturn
    \/ GeminiChatReturn
    \/ NextRequest

\* a service that will answer does answer
SpecHang ==
    /\ InitChat /\ [][NextHang]_vars
    /\ []<>~(RecSuspended /\ rec.fate = "answers")
    /\ []<>~(ChatSuspended /\ chat.fate = "answers")
(***************************************************************************)
(* The intent matcher on catalogs with a large design category             *)
(***************************************************************************)

\* a design tool of the sample catalogs; ease 0 is an entry without ease
DesignTool(id, ease) ==
    ToolEntry(id, id, <<"a","r","t">>, Pricing(TRUE, Undefined), ease)

\* the design tools the sample catalogs are made of, in document order:
\* looka, kittl and figma are priority ids of design patterns
DesignPool == <<
    DesignTool(<<"f","i","g","m","a">>, 3), DesignTool(<<"p","i","x","l","r">>, 0), DesignTool(<<"k","i","t","t","l">>, 2),
    canva, DesignTool(<<"v","i","s","t","a">>, 1), DesignTool(<<"l","o","o","k","a">>, 4),
    DesignTool(<<"f","r","a","m","e","r">>, 5), DesignTool(<<"p","e","n","p","o","t">>, 4)>>

\* the tools of the pool at the positions of keep, in the pool's order
RECURSIVE Kept(_, _)
Kept(keep, n) ==
    IF n = 0 THEN <<>>
    ELSE Kept(keep, n - 1) \o (IF n \in keep THEN <<DesignPool[n]>> ELSE <<>>)

\* a catalog: a choice of design tools, and possibly the id 'looka' in the
\* coding category as well
RelevantCatalog(keep, twice) ==
    [k \in CatKeys |->
        IF k = "design" THEN Kept(keep, Len(DesignPool))
        ELSE <<chatgpt, cursor>>
             \o (IF twice THEN <<DesignTool(<<"l","o","o","k","a">>, 2)>> ELSE <<>>)]

\* the messages: four that a pattern accepts, one that two patterns score
\* alike ('edit photo', 'edit video'), one whose phrase is no word of its
\* own, one with two patterns, one that nothing matches
RelevantMessages ==
    {<<"a"," ","l","o","g","o">>, <<"P","o","s","t","e","r">>,
     <<"m","y"," ","r","e","s","u","m","e">>, <<"c","o","d","e">>, <<"z","z","z">>,
     <<"e","d","i","t">>, <<"l","o","g","o","!">>,
     <<"c","o","d","e"," ","a"," ","l","o","g","o"," ","a","p","p">>}

InitRelevant ==
    /\ \E keep \in SUBSET (1..Len(DesignPool)), twice \in BOOLEAN :
          toolsFile = [categories |-> RelevantCatalog(keep, twice),
                       totalTools |-> SumLens(RelevantCatalog(keep, twice), CatKeys)]
    /\ discovered = <<>>
    /\ engineTools = toolsFile
    /\ groqKey = FALSE
    /\ geminiKey = FALSE
    /\ disk = "refuses"
    /\ logFile = "ok"
    /\ cat = NoRec
    /\ task = [t \in Tasks |-> IdleTask]
    /\ commits = 0
    /\ rec = NoRec
    /\ history = <<>>
    /\ chat = NoRec
    /\ query \in RelevantMessages
    /\ intent = NoRec

NextRelevant == AnalyzeIntent

SpecRelevant == InitRelevant /\ [][NextRelevant]_vars
(***************************************************************************)
(* The intent matcher on catalogs that discovery has extended              *)
(***************************************************************************)

\* an entry as addToolToDatabase stores it; name is Undefined when the
\* classification returned none
Discovered(id, name) ==
    ToolEntry(id, name, <<"n","e","w">>, Pricing(TRUE, Undefined), 3)

\* the catalogs: the initial one, and the initial one with one discovered
\* entry at the end of a category: 'Bolt' with the id 'bolt_new', or an
\* entry of id 'bolt' without a name
GuidanceCatalogs ==
    {InitialCategories,
     [InitialCategories EXCEPT !["coding_assistance"] =
         @ \o <<Discovered(<<"b","o","l","t","_","n","e","w">>, <<"B","o","l","t">>)>>],
     [InitialCategories EXCEPT !["coding_assistance"] =
         @ \o <<Discovered(<<"b","o","l","t">>, Undefined)>>],
     [InitialCategories EXCEPT !["design"] =
         @ \o <<Discovered(<<"b","o","l","t">>, Undefined)>>]}

\* the pieces of the messages: two guidance signals, the names of tools, a
\* phrase of a design pattern, a word that nothing matches
GuidanceVocabulary ==
    {<<"h","o","w"," ","t","o"," ","u","s","e">>, <<"G","u","i","d","e"," ","m","e">>, <<"c","a","n","v","a">>, <<"C","u","r","s","o","r">>, <<"C","h","a","t","G","P","T">>,
     <<"b","o","l","t">>, <<"l","o","g","o">>, <<"z","z","z">>}

GuidanceMessages ==
    {joinSpace(ws) : ws \in UNION {[1..n -> GuidanceVocabulary] : n \in 1..3}}

InitGuidance ==
    /\ \E c \in GuidanceCatalogs :
          toolsFile = [categories |-> c, totalTools |-> SumLens(c, CatKeys)]
    /\ discovered = <<>>
    /\ engineTools = toolsFile
    /\ groqKey = FALSE
    /\ geminiKey = FALSE
    /\ disk = "refuses"
    /\ logFile = "ok"
    /\ cat = NoRec
    /\ task = [t \in Tasks |-> IdleTask]
    /\ commits = 0
    /\ rec = NoRec
    /\ history = <<>>
    /\ chat = NoRec
    /\ query \in GuidanceMessages
    /\ intent = NoRec

NextGuidance == AnalyzeIntent

SpecGuidance == InitGuidance /\ [][NextGuidance]_vars
(***************************************************************************)
(* Properties of the discovery pipeline and the engine                     *)
(***************************************************************************)

\* the discoverToolByUrl request of slot r1 has been answered
UrlDone == task["r1"].op = "url" /\ task["r1"].pc = "done"

Last(seq) == seq[Len(seq)]

\* the ids a catalog document holds, in any category
IdsOf(data) == {tl.id : tl \in AllTools(data)}

\* C1: once a commit of addToolToDatabase has succeeded, the persisted
\* metadata.totalTools equals the sum of the lengths of the categories' tool
\* lists, whatever the count the document carried before.
C1_TotalToolsIsSum ==
    commits > 0 => toolsFile.totalTools = SumLens(toolsFile.categories, CatKeys)

\* two commits have succeeded, one of them a batch's
C1_Witness ==
    /\ commits = 2
    /\ task["r1"].op = "scrape"
    /\ task["r1"].counts.added > 0
    /\ toolsFile.totalTools = SumLens(InitialCategories, CatKeys) + 2

\* C2: no two tools of the persisted catalog, in the same or in different
\* categories, share an id.
C2_IdsUniqueAcrossCatalog ==
    \A i, j \in 1..Len(ToolsInOrder(toolsFile)) :
        i # j => ToolsInOrder(toolsFile)[i].id # ToolsInOrder(toolsFile)[j].id

\* what the code does keep: no two tools of one category share an id
C2_IdsUniqueWithinCategory ==
    \A k \in CatKeys : \A i, j \in 1..Len(toolsFile.categories[k]) :
        i # j => toolsFile.categories[k][i].id # toolsFile.categories[k][j].id

\* C3: a recommendation answered for the free budget holds only tools whose
\* pricing.free is true, hence none whose pricing.free is false, on each of
\* the four paths.
C3_FreeBudgetOnlyFreeTools ==
    (rec.called /\ ~rec.result.threw /\ rec.budget = "free")
        => \A i \in 1..Len(rec.result.tools) :
              /\ rec.result.tools[i].pricing.defined
              /\ rec.result.tools[i].pricing.free = TRUE

\* the completion named a tool that is not free, and three free ones, one of
\* them admitted by discovery: the three are returned
C3_Witness ==
    /\ rec.called /\ ~rec.result.threw /\ rec.budget = "free"
    /\ rec.result.source = "gemini"
    /\ \E tl \in AllTools(engineTools) :
          tl.id \in rec.ai.tools /\ tl.pricing.defined /\ ~tl.pricing.free
    /\ Len(rec.result.tools) = 3

\* C4: getRecommendations hands a result object to its caller and never an
\* exception.
C4_NeverThrows == rec.called => ~rec.result.threw

\* the throw that needs no discovery: the category argument names a property
\* every object inherits
C4_ThrowsOnInheritedKey ==
    ~(rec.called /\ rec.result.threw /\ rec.category \in ProtoKeys
      /\ engineTools.categories = InitialCategories)

\* the throw on a catalog that discovery wrote: with a valid category, or none
C4_ThrowsOnDiscoveredTool ==
    ~(rec.called /\ rec.result.threw /\ rec.category \notin ProtoKeys)

\* the order of the steps, read off a result: a valid category given by the
\* caller yields the category result and no completion call; otherwise the
\* source is 'gemini' only if the completion answered ids of which a tool
\* passes the budget filter, and 'fallback' or 'default' when Gemini is
\* absent, throws, is unparsable or names no surviving tool
StepsInOrder ==
    LET survives == \E tl \in AllTools(engineTools) :
                        /\ tl.id \in rec.ai.tools
                        /\ (rec.budget = "free" =>
                               tl.pricing.defined /\ tl.pricing.free)
    IN  IF rec.category \in CatKeys
        THEN rec.result.source = "ai_category" /\ rec.ai.kind = "none"
        ELSE /\ rec.result.source \in {"gemini", "fallback", "default"}
             /\ rec.result.source = "gemini" =>
                   /\ rec.ai.kind = "ids"
                   /\ Len(rec.result.tools) > 0
                   /\ \A i \in 1..Len(rec.result.tools) :
                         rec.result.tools[i].id \in rec.ai.tools
             /\ (rec.ai.kind \in {"none", "throws", "unparsable"} \/ ~survives)
                   => rec.result.source \in {"fallback", "default"}

\* C5: getRecommendations answers every request with the result of the first
\* step that succeeds, in the order category, completion, keyword fallback,
\* default set, labelled with that step's source.
C5_AnswersInStrictOrder ==
    rec.called => (~rec.result.threw /\ StepsInOrder)

\* C5, for the calls that return: the result is the first successful step's
C5_StrictOrder ==
    (rec.called /\ ~rec.result.threw) => StepsInOrder

\* the completion answered ids, none of them a tool that passes the filter:
\* the keyword fallback answered
C5_Witness ==
    /\ rec.called /\ ~rec.result.threw
    /\ rec.category \notin CatKeys
    /\ rec.ai.kind = "ids" /\ rec.ai.tools # {}
    /\ rec.result.source = "fallback"

\* C6: a discoverToolByUrl call for the URL of the successful call before it
\* returns success=false with the duplicate error, and leaves
\* metadata.totalTools as the first call left it.
C6_SecondCallIsDuplicate ==
    (UrlDone /\ task["r1"].prevUrl = task["r1"].arg) =>
        /\ ~task["r1"].result.threw
        /\ ~task["r1"].result.success
        /\ task["r1"].result.error = "Tool already exists in database"
        /\ toolsFile.totalTools = task["r1"].before.file.totalTools

\* the second call is refused as a duplicate
C6_Witness ==
    /\ UrlDone /\ task["r1"].prevUrl = task["r1"].arg
    /\ task["r1"].result.error = "Tool already exists in database"
    /\ toolsFile = task["r1"].before.file

\* the second call succeeds as well
C6_SecondCallSucceeds ==
    ~(UrlDone /\ task["r1"].prevUrl = task["r1"].arg /\ task["r1"].result.success)

\* C7: a discoverToolByUrl call that returns success=false leaves the
\* catalog document and the discovery log as they were when it was called;
\* and the call returns success=false when the classification says the page
\* is no AI tool, names a category the catalog lacks, or names an id the
\* catalog already holds.
C7_FailureChangesNothing ==
    UrlDone =>
        /\ (~task["r1"].result.threw /\ ~task["r1"].result.success) =>
              /\ toolsFile = task["r1"].before.file
              /\ discovered = task["r1"].before.log
        /\ (\/ task["r1"].cls.kind = "notAITool"
            \/ /\ task["r1"].cls.kind = "tool"
               /\ \/ task["r1"].cls.category \notin CatKeys
                  \/ task["r1"].cls.id \in IdsOf(task["r1"].before.file))
              => (~task["r1"].result.threw /\ ~task["r1"].result.success)

\* the part that holds: a failure leaves both documents alone
C7_FailureFrame ==
    (UrlDone /\ ~task["r1"].result.threw /\ ~task["r1"].result.success) =>
        /\ toolsFile = task["r1"].before.file
        /\ discovered = task["r1"].before.log

\* a call refused after its classification, the catalog already changed by
\* an earlier call
C7_Witness ==
    /\ UrlDone /\ ~task["r1"].result.success /\ ~task["r1"].result.threw
    /\ task["r1"].cls.kind = "tool"
    /\ task["r1"].cls.category \notin CatKeys
    /\ commits > 0

(***************************************************************************)
(* Properties of a commit whose write fails                                *)
(***************************************************************************)

\* the request of slot r1 reached its commit with an entry that
\* addToolToDatabase accepts (its category is in the catalog, its id is not
\* in that category's list) and was answered with the commit's failure:
\* persisting the document failed
WriteFailed ==
    /\ UrlDone
    /\ task["r1"].result.error = "Failed to add to database"
    /\ task["r1"].cls.kind = "tool"
    /\ task["r1"].cls.category \in CatKeys
    /\ task["r1"].before.file # Torn
    /\ \A i \in 1..Len(task["r1"].before.file.categories[task["r1"].cls.category]) :
          task["r1"].before.file.categories[task["r1"].cls.category][i].id
              # task["r1"].cls.id

\* C14: when persisting the catalog document fails inside a commit, the
\* call reports failure without throwing, no Discovery Record is appended,
\* and the persisted document and the engine's catalog are what they were
\* before the commit.
C14_FailedWriteChangesNothing ==
    WriteFailed =>
        /\ ~task["r1"].result.threw /\ ~task["r1"].result.success
        /\ discovered = task["r1"].before.log
        /\ toolsFile = task["r1"].before.file
        /\ engineTools.categories = InitialCategories

\* the part that holds: the failure is reported, nothing is logged, the
\* engine's catalog is not touched; the document is what it was when the
\* write is refused, and truncated when the write fails after the open
C14_FailedWriteIsReported ==
    WriteFailed =>
        /\ ~task["r1"].result.threw /\ ~task["r1"].result.success
        /\ discovered = task["r1"].before.log
        /\ engineTools.categories = InitialCategories
        /\ toolsFile = IF disk = "tears" THEN Torn ELSE task["r1"].before.file

\* a write that failed after the open, the catalog holding an earlier
\* discovery
C14_Witness ==
    WriteFailed /\ disk = "tears" /\ commits > 0

\* after a truncated write every later discovery call throws
C14_TornDocumentStays ==
    [][toolsFile = Torn => toolsFile' = Torn]_vars

(***************************************************************************)
(* Properties of the catalog reloaded after a commit                       *)
(***************************************************************************)

\* the request of slot r1 was a discoverToolByUrl call that committed its
\* tool, and the process is now started again: the engine loads the document
CommitThenReload ==
    /\ UrlDone /\ task["r1"].result.success
    /\ task'["r1"].pc = "idle"

\* the list of the committed tool's category is one longer than when the
\* call was made, the other lists are as they were
OneLonger(data) ==
    \A k \in CatKeys :
        Len(data.categories[k]) =
            Len(task["r1"].before.file.categories[k])
                + (IF k = task["r1"].cls.category THEN 1 ELSE 0)

\* C15: after a successful discovery commit of a tool into category c, the
\* reloaded catalog's findToolById(tool.id) returns that tool (the entry the
\* commit appended to c), c's list is exactly one element longer than before
\* the commit and every other category's list is unchanged.
C15_ReloadFindsCommittedTool ==
    [][CommitThenReload =>
          /\ findToolById(engineTools', task["r1"].cls.id)
                = <<Last(toolsFile.categories[task["r1"].cls.category])>>
          /\ OneLonger(engineTools')
          /\ \A k \in CatKeys \ {task["r1"].cls.category} :
                engineTools'.categories[k] = task["r1"].before.file.categories[k]]_vars

\* the part that holds: the lists are as the claim says, the committed entry
\* is the last of its category's list, and findToolById returns an entry
\* with the committed id, the first one in the order of the categories
C15_ReloadFindsTheId ==
    [][CommitThenReload =>
          /\ Len(findToolById(engineTools', task["r1"].cls.id)) = 1
          /\ findToolById(engineTools', task["r1"].cls.id)[1].id = task["r1"].cls.id
          /\ Last(engineTools'.categories[task["r1"].cls.category]).id
                = task["r1"].cls.id
          /\ OneLonger(engineTools')
          /\ \A k \in CatKeys \ {task["r1"].cls.category} :
                engineTools'.categories[k] = task["r1"].before.file.categories[k]]_vars

\* a committed tool whose id another category, earlier in the document's
\* order, already holds
C15_Witness ==
    /\ UrlDone /\ task["r1"].result.success
    /\ task["r1"].cls.category = "design"
    /\ \E i \in 1..Len(toolsFile.categories["coding_assistance"]) :
          toolsFile.categories["coding_assistance"][i].id = task["r1"].cls.id

(***************************************************************************)
(* Properties of the batch                                                 *)
(***************************************************************************)

\* a batch is under way in slot r1: its listing is awaited or its loop is
\* at one of its awaits
Scraping ==
    /\ task["r1"].op = "scrape"
    /\ task["r1"].pc \in {"listing", "sfetch", "sclassify", "sleep"}

\* the batch of slot r1 has returned its counts, its loop having gone past
\* the last candidate of the listing
BatchComplete ==
    /\ task["r1"].op = "scrape" /\ task["r1"].pc = "done"
    /\ ~task["r1"].result.threw
    /\ task["r1"].idx = task["r1"].counts.discovered + 1

ByName == task["r1"].op = "name"
IdsAtCall == getExistingToolIds(task["r1"].before.file)
NameKnown == toLowerCase(task["r1"].arg) \in IdsAtCall.ids
ToolCount(data) == SumLens(data.categories, CatKeys)

\* a known name is refused without an attempt; a call that was not refused
\* is at one of its four guesses, taken in the order of possibleUrls
C20_State ==
    ByName =>
        /\ task["r1"].idx \in 0..4
        /\ (task["r1"].pc = "done" /\ ~IdsAtCall.threw /\ NameKnown) =>
              /\ task["r1"].idx = 0
              /\ task["r1"].result
                    = Result(FALSE, "Tool already exists in database", Undefined)
              /\ toolsFile = task["r1"].before.file
        /\ (task["r1"].idx = 0) => (IdsAtCall.threw \/ NameKnown)
        /\ (task["r1"].pc \in {"fetch", "classify"}) =>
              /\ task["r1"].idx >= 1
              /\ task["r1"].url = possibleUrls(task["r1"].arg)[task["r1"].idx]
              /\ toolsFile = task["r1"].before.file
        /\ ToolCount(toolsFile) <= ToolCount(task["r1"].before.file) + 1
        /\ (task["r1"].pc = "done" /\ task["r1"].result.success) =>
              ToolCount(toolsFile) = ToolCount(task["r1"].before.file) + 1
        /\ (task["r1"].pc = "done" /\ ~task["r1"].result.success) =>
              toolsFile = task["r1"].before.file
        /\ (task["r1"].pc = "done" /\ ~task["r1"].result.success
               /\ task["r1"].idx >= 1) =>
              /\ task["r1"].idx = 4
              /\ task["r1"].result = Result(FALSE, "Could not find online", Undefined)

\* the guesses are taken one after the other, and the step that adds the
\* tool ends the call with that attempt's success
C20_Step ==
    (ByName /\ task'["r1"].op = "name" /\ task["r1"].pc # "done") =>
        /\ task'["r1"].idx \in {task["r1"].idx, task["r1"].idx + 1}
        /\ (toolsFile' # toolsFile) =>
              /\ task'["r1"].pc = "done" /\ task'["r1"].result.success
              /\ task'["r1"].idx = task["r1"].idx

\* C20: discoverToolByName refuses a name already in the catalog before any
\* fetch; otherwise it tries <name>.com, <name>.ai, <name>.io and
\* www.<name>.com in that order, stops at the first attempt that succeeds,
\* makes at most four attempts, adds at most one tool, and returns
\* success=false when every attempt fails.
C20_GuessesInOrder ==
    /\ possibleUrls(<<"M","y"," ","B","o","l","t">>)
          = << <<"h","t","t","p","s",":","/","/","m","y","b","o","l","t",".","c","o","m">>,
               <<"h","t","t","p","s",":","/","/","m","y","b","o","l","t",".","a","i">>,
               <<"h","t","t","p","s",":","/","/","m","y","b","o","l","t",".","i","o">>,
               <<"h","t","t","p","s",":","/","/","w","w","w",".","m","y","b","o","l","t",".","c","o","m">> >>
    /\ []C20_State
    /\ [][C20_Step]_vars

\* 'Bolt' is found at its second guess, bolt.ai, after bolt.com failed
C20_Witness ==
    /\ ByName /\ task["r1"].pc = "done"
    /\ task["r1"].result.success
    /\ task["r1"].idx = 2
    /\ task["r1"].url = BoltUrl

(***************************************************************************)
(* Properties of the conversation policy                                   *)
(***************************************************************************)

\* the message of the last request is a standalone budget answer and the
\* last assistant turn of its history mentions both budgets
BudgetAnswered ==
    /\ chat.called
    /\ isStandaloneBudgetAnswer(trim(toLowerCase(chat.message)))
    /\ askedBudget(chat.history)

\* C8: a standalone budget answer to a last assistant turn that mentions
\* 'free' and 'premium' makes handleChat return the show-tools outcome, with
\* the budget the answer names and with originalQuery the last user turn of
\* the history, which is not the answer itself.
C8_BudgetAnswerShowsTools ==
    BudgetAnswered =>
        /\ chat.result.type = "direct_recommendation"
        /\ chat.result.budget =
              (IF includes(toLowerCase(chat.message), <<"f","r","e","e">>)
               THEN "free" ELSE "premium")
        /\ lastOf(chat.history, "user") # <<>>
        /\ chat.result.originalQuery = lastOf(chat.history, "user")[1].content
        /\ chat.result.originalQuery # chat.message

\* what the code does keep: with Groq configured the outcome, the budget and
\* the last user turn are as stated
C8_WithGroq ==
    (BudgetAnswered /\ groqKey) =>
        /\ chat.result.type = "direct_recommendation"
        /\ chat.result.budget =
              (IF includes(toLowerCase(chat.message), <<"f","r","e","e">>)
               THEN "free" ELSE "premium")
        /\ chat.result.originalQuery = lastOf(chat.history, "user")[1].content

\* the budget answer is taken with Groq configured
C8_Witness ==
    /\ BudgetAnswered /\ groqKey
    /\ chat.message = <<"p","a","i","d">>
    /\ chat.result.type = "direct_recommendation"
    /\ chat.result.budget = "premium"
    /\ chat.result.originalQuery = <<"i"," ","w","a","n","t"," ","t","o"," ","d","e","s","i","g","n"," ","a"," ","l","o","g","o">>

\* C9: with no AI provider configured, a user who sends a tool-seeking
\* message, receives the rule-based budget question and answers 'free'
\* receives the show-tools outcome.
C9_ShortcutWithoutProviders ==
    (/\ chat.called /\ ~groqKey /\ ~geminiKey
     /\ chat.message = <<"f","r","e","e">>
     /\ chat.history = <<Turn("user", <<"i"," ","w","a","n","t"," ","t","o"," ","d","e","s","i","g","n"," ","a"," ","l","o","g","o">>),
                         Turn("assistant", BudgetQuestion)>>)
        => (chat.result.type = "direct_recommendation" /\ chat.result.budget = "free")

\* the same conversation gets the rule-based responder's default reply
C9_AnswerGetsDefaultReply ==
    ~(/\ chat.called /\ ~groqKey /\ ~geminiKey
      /\ chat.message = <<"f","r","e","e">>
      /\ chat.history = <<Turn("user", <<"i"," ","w","a","n","t"," ","t","o"," ","d","e","s","i","g","n"," ","a"," ","l","o","g","o">>),
                          Turn("assistant", BudgetQuestion)>>
      /\ chat.result = Reply("question", DefaultReply))

\* the message of the last request states a budget and asks for a tool
BudgetAndTool ==
    /\ chat.called
    /\ \/ matchesAnyWord(chat.message, WantsFree)
       \/ matchesAnyWord(chat.message, WantsPremium)
    /\ matchesAnyWord(chat.message, ToolRequest)

\* the show-tools outcome for the message itself, reached without a call to
\* a provider
DirectForMessage ==
    /\ chat.result.type = "direct_recommendation"
    /\ chat.result.budget = (IF matchesAnyWord(chat.message, WantsFree)
                             THEN "free" ELSE "premium")
    /\ chat.result.originalQuery = chat.message
    /\ chat.groq \in {"none", "shortcut"}
    /\ chat.gemini = "none"
    /\ "rules" \notin Range(chat.steps)

\* C18: a message that matches both a budget-preference pattern and a
\* tool-seeking pattern gets the show-tools outcome at once, without a call
\* to the AI capability and without the budget question, with originalQuery
\* the message itself and the budget the message expresses.
C18_BudgetAndToolShowsTools ==
    BudgetAndTool => DirectForMessage

\* the part that holds: with Groq configured, unless the message is a
\* standalone budget answer to a budget question (that rule comes first and
\* takes the history's last user turn as originalQuery)
C18_WithGroq ==
    (BudgetAndTool /\ groqKey /\ ~BudgetAnswered) => DirectForMessage

\* such a message, no provider configured, answered by the rule-based
\* responder
C18_Witness ==
    /\ BudgetAndTool /\ ~groqKey /\ ~geminiKey
    /\ chat.result.type = "question"

\* such a message that is also a standalone budget answer to a budget
\* question: originalQuery is the earlier user turn
C18_AnswerRuleComesFirst ==
    ~(/\ BudgetAndTool /\ groqKey /\ BudgetAnswered
      /\ chat.result.type = "direct_recommendation"
      /\ chat.result.originalQuery # chat.message)

(***************************************************************************)
(* Properties of the chain of strategies of handleChat                     *)
(***************************************************************************)

\* no provider gave a response to the last call: each was not configured,
\* not reached, or threw
NoProviderAnswered ==
    chat.groq \in {"none", "throws"} /\ chat.gemini \in {"none", "throws"}

\* C16: handleChat returns a response for every message and history and
\* never throws, whatever the providers do (not configured, throwing,
\* returning text that does not parse); when no AI-backed strategy yields a
\* response, the rule-based responder produces it, of type 'question' or
\* 'tool_request'.
C16_AlwaysResponds ==
    chat.called =>
        /\ ~chat.threw
        /\ chat.result.type \in {"chat", "show_tools", "question", "tool_request"}
        /\ chat.result.response # Undefined
        /\ NoProviderAnswered =>
              /\ chat.result = getSmartFallback(chat.message, chat.history)
              /\ chat.result.type \in {"question", "tool_request"}

\* both providers are configured and both throw; the rule-based responder
\* asks the budget question
C16_Witness ==
    /\ chat.called /\ groqKey /\ geminiKey
    /\ chat.groq = "throws" /\ chat.gemini = "throws"
    /\ chat.result.type = "tool_request"

\* the place of a strategy in the chain
Rank(step) == IF step = "groq" THEN 1 ELSE IF step = "gemini" THEN 2 ELSE 3

\* C17: the strategies run one at a time in the order Groq, Gemini, rules;
\* Gemini is invoked only if Groq is not configured or its call failed, the
\* rule-based responder runs only if no provider produced a response, and
\* nothing runs after a provider has returned a response.
C17_ChainInOrder ==
    chat.called =>
        /\ \A i, j \in 1..Len(chat.steps) :
              i < j => Rank(chat.steps[i]) < Rank(chat.steps[j])
        /\ ("groq" \in Range(chat.steps)) <=> groqKey
        /\ ("gemini" \in Range(chat.steps)) =>
              (geminiKey /\ chat.groq \in {"none", "throws"})
        /\ ("rules" \in Range(chat.steps)) => NoProviderAnswered
        /\ chat.groq = "answers" => chat.steps = <<"groq">>
        /\ chat.gemini = "text" => chat.steps[Len(chat.steps)] = "gemini"

\* Groq is configured and throws, Gemini answers: the rule-based responder
\* does not run
C17_Witness ==
    /\ chat.called /\ groqKey /\ geminiKey
    /\ chat.groq = "throws" /\ chat.gemini = "text"
    /\ chat.steps = <<"groq", "gemini">>

(***************************************************************************)
(* Properties of the intent matcher                                        *)
(***************************************************************************)

\* the query analyzeIntent works on
Normalized == trim(toLowerCase(query))

\* the query includes one of the pattern's phrases
hasPhrase(p) ==
    \E i \in 1..Len(intentMap[p].intents) :
        includes(Normalized, intentMap[p].intents[i])

\* the pattern's score for the query
scoreOf(p) == patternScore(Normalized, splitWS(Normalized), intentMap[p])

C10_GuidanceTakesOver ==
    ~(/\ intent.called /\ intent.isGuidance
      /\ hasPhrase(3)
      /\ intent.category # intentMap[3].category)

\* the query includes no phrase of the intent table
NoPhrase == \A p \in 1..Len(intentMap) : ~hasPhrase(p)

\* no word of the query is found in a tool's searchable text or name
NoToolWord ==
    LET flat == flattenTools(engineTools)
        words == splitWS(Normalized)
    IN  \A i \in 1..Len(words), j \in 1..Len(flat) :
            /\ ~includes(flat[j].searchText, words[i])
            /\ ~includes(toLowerCase(flat[j].name), words[i])

\* no word of the query is a word of a phrase of the intent table
NoPhraseWord ==
    LET words == splitWS(Normalized)
    IN  \A p \in 1..Len(intentMap) : \A i \in 1..Len(intentMap[p].intents) :
            \A k \in 1..Len(splitSpace(intentMap[p].intents[i])) :
                ~contains(words, splitSpace(intentMap[p].intents[i])[k])

CommittedSinceLoad ==
    /\ task["r1"].pc = "done" /\ task["r1"].op = "url"
    /\ task["r1"].result.success
    /\ toolsFile # task["r1"].before.file

\* what the request of rec gets from an engine that holds the catalog data
Served(data) ==
    getRecommendations(data, rec.query, rec.budget, rec.category, rec.ai).result

\* C13: a recommendation request served after a successful discovery commit
\* is answered from the catalog as the commit left it.
C13_ServesUpdatedCatalog ==
    (rec.called /\ CommittedSinceLoad) => rec.result = Served(toolsFile)

\* what the code does: every request is answered from the catalog the engine
\* loaded when the process started
C13_ServesLoadedCatalog ==
    rec.called => rec.result = Served(engineTools)

\* a request for the category of the tool just committed is answered
\* without that tool
C13_Witness ==
    /\ rec.called /\ CommittedSinceLoad
    /\ rec.category = "coding_assistance" /\ rec.budget = "free"
    /\ task["r1"].cls.category = "coding_assistance"
    /\ ~rec.result.threw
    /\ \A i \in 1..Len(rec.result.tools) :
          rec.result.tools[i].id # task["r1"].result.tool
    /\ ~Served(toolsFile).threw
    /\ \E i \in 1..Len(Served(toolsFile).tools) :
          Served(toolsFile).tools[i].id = task["r1"].result.tool

(***************************************************************************)
(* Properties of concurrent discovery                                      *)
(***************************************************************************)

\* slot t's discoverToolByUrl or discoverToolByName has reported a success
Committed(t) ==
    /\ task[t].op \in {"url", "name"}
    /\ task[t].pc = "done"
    /\ task[t].result.success

\* the tool slot t committed is in the list of its category
Present(t) ==
    /\ task[t].cls.kind = "tool"
    /\ task[t].cls.category \in CatKeys
    /\ \E i \in 1..Len(toolsFile.categories[task[t].cls.category]) :
          toolsFile.categories[task[t].cls.category][i].id = task[t].result.tool

\* C12: under every interleaving of two discovery operations no commit is
\* lost: the persisted catalog holds one more tool for every commit that
\* reported success, the discovery log one more record, metadata.totalTools
\* counts them all, and the tool of every single discovery that reported
\* success is in its category's list.
C12_NoLostUpdate ==
    /\ SumLens(toolsFile.categories, CatKeys)
          = SumLens(InitialCategories, CatKeys) + commits
    /\ Len(discovered) = commits
    /\ commits > 0 =>
          toolsFile.totalTools = SumLens(InitialCategories, CatKeys) + commits
    /\ \A t \in Tasks : Committed(t) => Present(t)

\* two single discoveries whose awaits overlapped have both reported success
C12_Witness ==
    /\ Committed("r1") /\ Committed("r2")
    /\ ~task["r1"].alone
    /\ Present("r1") /\ Present("r2")
    /\ task["r1"].result.tool # task["r2"].result.tool
    /\ commits = 2
    /\ toolsFile.totalTools = SumLens(InitialCategories, CatKeys) + 2

(***************************************************************************)
(* Properties of the entries discovery admits                              *)
(***************************************************************************)

\* a tool that is not free names its premium plan
PricingOk(tl) ==
    (tl.pricing.defined /\ tl.pricing.free = FALSE)
        => (tl.pricing.premium # Undefined /\ tl.pricing.premium # <<>>)

\* C21: after any sequence of discovery commits every tool of the persisted
\* catalog satisfies the pricing invariant: pricing.free = false implies
\* that pricing.premium is a non-empty description.
C21_PricingInvariant ==
    \A tl \in AllTools(toolsFile) : PricingOk(tl)

\* what the code does keep: the entries of the keyword fallback are free, so
\* without the completion service the invariant is preserved
C21_FallbackKeepsPricing ==
    ~groqKey => \A tl \in AllTools(toolsFile) : PricingOk(tl)

\* a discoverToolByUrl call has committed an entry that is not free and
\* names no premium plan
C21_Witness ==
    /\ UrlDone /\ task["r1"].result.success
    /\ \E tl \in AllTools(toolsFile) :
          /\ tl.id = task["r1"].result.tool
          /\ tl.pricing.defined /\ tl.pricing.free = FALSE
          /\ tl.pricing.premium = Undefined

(***************************************************************************)
(* Properties of categorizeWithAI                                          *)
(***************************************************************************)

\* the last categorizeWithAI call had no completion service to ask, or its
\* request threw
FallbackTaken == cat.called /\ (~groqKey \/ cat.raw.kind = "throws")

\* the number of keywords of the table's i-th category that the candidate's
\* serialized data contains
Hits(i) ==
    Cardinality({k \in 1..Len(categoryKeywords[i].keywords) :
        includes(stringify(cat.toolData), categoryKeywords[i].keywords[k])})

\* C22: when the classification capability is not configured or its call
\* throws, categorizeWithAI returns an entry with isAITool = true,
\* pricing.free = true, ease = 3 and a category that is a key of the keyword
\* table: the key with the highest keyword-hit count, the first in table
\* order on a tie, and 'coding_assistance' when no keyword hits.
C22_FallbackEntry ==
    FallbackTaken =>
        /\ cat.result.kind = "tool"
        /\ cat.result.tool.isAITool = TRUE
        /\ cat.result.tool.pricing.defined /\ cat.result.tool.pricing.free = TRUE
        /\ cat.result.tool.ease = 3
        /\ \E i \in 1..Len(categoryKeywords) :
              cat.result.tool.category = categoryKeywords[i].cat
        /\ (\A i \in 1..Len(categoryKeywords) : Hits(i) = 0)
              => cat.result.tool.category = "coding_assistance"
        /\ \A i \in 1..Len(categoryKeywords) :
              (/\ Hits(i) > 0
               /\ \A j \in 1..Len(categoryKeywords) : Hits(j) <= Hits(i)
               /\ \A j \in 1..(i - 1) : Hits(j) < Hits(i))
                  => cat.result.tool.category = categoryKeywords[i].cat

\* the request threw for a candidate whose data hits two keywords of
\* image_editing and two of video_creation: image_editing, the earlier in
\* the table, is its category
C22_Witness ==
    /\ FallbackTaken /\ groqKey
    /\ cat.toolData.description = <<"e","d","i","t"," ","p","h","o","t","o"," ","v","i","d","e","o"," ","c","l","i","p">>
    /\ cat.toolData.title = Undefined
    /\ Hits(3) = 2 /\ Hits(4) = 2
    /\ cat.result.tool.category = "image_editing"

(***************************************************************************)
(* Properties of the size of a recommendation                              *)
(***************************************************************************)

\* C23: every result of getRecommendations, on each of its paths (the
\* caller's category, the completion, the keyword fallback, the default
\* set), holds at most 3 tools.
C23_AtMostThreeTools ==
    (rec.called /\ ~rec.result.threw) =>
        /\ rec.result.source \in {"ai_category", "gemini", "fallback", "default"}
        /\ Len(rec.result.tools) <= 3

\* the keyword fallback answered from a category that discovery has grown to
\* four tools, all within the budget: three are returned
C23_Witness ==
    /\ rec.called /\ ~rec.result.threw
    /\ rec.result.source = "fallback" /\ rec.budget = "premium"
    /\ Len(engineTools.categories["coding_assistance"]) = 4
    /\ Len(rec.result.tools) = 3
    /\ \A i \in 1..3 :
          \E j \in 1..4 :
             rec.result.tools[i] = engineTools.categories["coding_assistance"][j]

(***************************************************************************)
(* Properties of the place of the duplicate check                          *)
(***************************************************************************)

\* the step ends a call of slot r1 with the duplicate error
RejectsAsDuplicate ==
    /\ task'["r1"] # task["r1"]
    /\ task'["r1"].pc = "done"
    /\ task'["r1"].result.error = "Tool already exists in database"

\* the name discoverToolByUrl looks up: the first piece of the page's title
TitleName(url) ==
    trim(firstPiece(toLowerCase(OrElse(analyzeToolUrl(url, TRUE).data.title, <<>>))))

\* the batch of slot r1 takes a step of its loop
BatchStep ==
    /\ Scraping
    /\ task'["r1"].op = "scrape"
    /\ task'["r1"] # task["r1"]

\* the candidates the step passes over
PassedOver ==
    IF task'["r1"].idx > task["r1"].idx
    THEN (task["r1"].idx + 1)..(task'["r1"].idx - 1) ELSE {}

\* C24: in every discovery operation the duplicate check comes first: a
\* candidate already in the catalog is rejected before any page is fetched
\* and before any classification is asked for it.  The step that rejects is
\* the one that takes the call, and a batch passes over the candidates it
\* skips without stopping at them.
C24_DedupComesFirst ==
    /\ [][RejectsAsDuplicate => task["r1"].pc \in {"idle", "done"}]_vars
    /\ [][BatchStep =>
             task'["r1"].counts.skipped - task["r1"].counts.skipped
                 = Cardinality(PassedOver)]_vars

\* no classification is asked, and by name and in a batch no page is
\* fetched, for a candidate whose name is among the ids and names loaded
C24_NoCallForKnownName ==
    /\ (task["r1"].op = "url" /\ task["r1"].pc = "classify")
          => TitleName(task["r1"].url) \notin task["r1"].ids
    /\ (task["r1"].op = "name" /\ task["r1"].pc \in {"fetch", "classify"})
          => /\ toLowerCase(task["r1"].arg) \notin IdsAtCall.ids
             /\ task["r1"].pc = "classify"
                   => TitleName(task["r1"].url) \notin task["r1"].ids
    /\ (task["r1"].op = "scrape" /\ task["r1"].pc \in {"sfetch", "sclassify"})
          => toLowerCase(Listing[task["r1"].idx].name) \notin task["r1"].ids

\* where the rejecting step is taken: by name at the call, before the first
\* guess; by URL at the return of the page request, the page's name being
\* among the ids and names loaded
C24_RejectingStep ==
    RejectsAsDuplicate =>
        \/ /\ task'["r1"].op = "name"
           /\ task["r1"].pc \in {"idle", "done"}
           /\ task'["r1"].idx = 0
           /\ toLowerCase(task'["r1"].arg)
                 \in getExistingToolIds(task'["r1"].before.file).ids
        \/ /\ task'["r1"].op = "url"
           /\ task["r1"].pc = "fetch"
           /\ TitleName(task["r1"].url) \in task["r1"].ids
           /\ task'["r1"].cls.kind = "none"

\* the candidates a batch's step passes over are the ones it counts as
\* skipped, and their names are among the ids and names the batch holds
C24_BatchSkips ==
    BatchStep =>
        /\ task'["r1"].counts.skipped - task["r1"].counts.skipped
              = Cardinality(PassedOver)
        /\ \A j \in PassedOver :
              toLowerCase(Listing[j].name) \in task'["r1"].ids

\* C24 as the code has it: the ids and names are loaded first; a candidate
\* whose name is among them is rejected before a classification is asked
\* for it, and, by name and in a batch, before a page is fetched for it; by
\* URL the page is fetched first, since its title gives the name.
C24_DedupBeforeClassification ==
    /\ []C24_NoCallForKnownName
    /\ [][C24_RejectingStep]_vars
    /\ [][C24_BatchSkips]_vars

\* a discoverToolByUrl call for a page whose name the catalog holds: refused
\* after the page request, the completion service never asked
C24_Witness ==
    /\ UrlDone /\ groqKey
    /\ task["r1"].arg = CanvaUrl
    /\ TitleName(CanvaUrl) \in task["r1"].ids
    /\ task["r1"].result.error = "Tool already exists in database"
    /\ task["r1"].cls.kind = "none"

(***************************************************************************)
(* Properties of discoverToolByUrl with a completion that is not an entry  *)
(***************************************************************************)

\* the discoverToolByUrl call of slot r1 has been answered after its
\* completion call returned
Classified1 ==
    /\ UrlDone /\ cat.called
    /\ task["r1"].cls.kind # "none"
    /\ cat.toolData.url = task["r1"].url

\* the completion's content is not an entry of the required schema: a text
\* that is no JSON, nothing, the object {}, an object without isAITool
Malformed == cat.raw.kind \in {"text", "noContent", "emptyObject", "noVerdict"}

\* the call went on with the entry of the keyword fallback
UsedFallback ==
    /\ ~task["r1"].result.threw
    /\ task["r1"].result.error # "Not identified as an AI tool"
    /\ task["r1"].cls = Classified(basicCategorize(cat.toolData))

\* C25: when the completion's output does not satisfy the required schema
\* (unparsable text, an empty object, an object lacking isAITool), discovery
\* goes on with the entry of the keyword fallback: the output is never taken
\* for the verdict that the candidate is no AI tool, and raises no error.
C25_MalformedRecovers ==
    (Classified1 /\ Malformed) => UsedFallback

\* what the code does: a text that is no JSON is recovered by the fallback;
\* an object without a truthy isAITool, the empty one included, is taken
\* for the verdict
C25_OnlyUnparsableRecovers ==
    Classified1 =>
        /\ cat.raw.kind \in {"throws", "text"} => UsedFallback
        /\ cat.raw.kind \in {"noContent", "emptyObject", "noVerdict", "false"} =>
              /\ task["r1"].result
                    = Result(FALSE, "Not identified as an AI tool", Undefined)
              /\ task["r1"].cls = NotAITool
              /\ toolsFile = task["r1"].before.file

\* the completion answered {} for a new tool's page: the call reports that
\* the page is no AI tool
C25_Witness ==
    /\ Classified1 /\ cat.raw.kind = "emptyObject"
    /\ task["r1"].arg = LookaUrl
    /\ task["r1"].result.error = "Not identified as an AI tool"

(***************************************************************************)
(* Properties of two discoveries without the completion service            *)
(***************************************************************************)

\* slot r1's call followed a successful discoverToolByUrl for another page
\* and reached its commit with the entry of the keyword fallback: two new
\* tools, their names distinct
SecondFallbackCommit ==
    /\ UrlDone /\ ~groqKey
    /\ task["r1"].cls.kind = "tool"
    /\ task["r1"].prevUrl # Undefined /\ task["r1"].prevUrl # task["r1"].arg
    /\ TitleName(task["r1"].prevUrl) # TitleName(task["r1"].arg)

\* C29: without the completion service, two new tools of distinct names
\* discovered by URL are both admitted: each entry's id derives from its own
\* name, so the ids differ and the second is not refused as a duplicate of
\* the first.
C29_DistinctNamesBothAdmitted ==
    SecondFallbackCommit =>
        /\ \A tl \in AllTools(task["r1"].before.file) : tl.id # task["r1"].cls.id
        /\ task["r1"].cls.id = slug(TitleName(task["r1"].arg))

\* what the code does: a page has no name field, so every entry of the
\* fallback made from a page has the id 'unknown'
C29_FallbackIdIsUnknown ==
    (UrlDone /\ ~groqKey /\ task["r1"].cls.kind = "tool")
        => task["r1"].cls.id = <<"u","n","k","n","o","w","n">>

\* 'Looka' after 'Bolt', both of the design category: the second is refused
\* at the commit, its id being the first one's
C29_Witness ==
    /\ SecondFallbackCommit
    /\ task["r1"].prevUrl = BoltUrl /\ task["r1"].arg = LookaUrl
    /\ task["r1"].cls.category = "design"
    /\ task["r1"].result.error = "Failed to add to database"
    /\ \E i \in 1..Len(task["r1"].before.file.categories["design"]) :
          task["r1"].before.file.categories["design"][i].id = task["r1"].cls.id
    /\ toolsFile = task["r1"].before.file

(***************************************************************************)
(* Properties of the reasons a discovery gives for refusing a candidate    *)
(***************************************************************************)

\* slot t's discoverToolByUrl returned a failure
Refused(t) ==
    /\ task[t].op = "url" /\ task[t].pc = "done"
    /\ ~task[t].result.threw /\ ~task[t].result.success

\* why slot t's call was refused, read off the path it took: the entry's
\* category is not in the catalog; its id is in the category's list; the
\* completion said it is no AI tool; the page's name is among the ids and
\* names loaded; the page could not be fetched; and, the entry being
\* acceptable, the write of the document failed
Reason(t) ==
    IF task[t].cls.kind = "notAITool" THEN "NotAnAITool"
    ELSE IF task[t].cls.kind = "tool"
    THEN IF task[t].cls.category \notin CatKeys THEN "InvalidCategory"
         ELSE IF \E i \in 1..Len(toolsFile.categories[task[t].cls.category]) :
                    toolsFile.categories[task[t].cls.category][i].id = task[t].cls.id
         THEN "DuplicateEntity"
         ELSE "PersistenceFailure"
    ELSE IF task[t].result.error = "Tool already exists in database"
    THEN "DuplicateEntity"
    ELSE "ExternalServiceUnavailable"

\* C26: the failure results for a duplicate, an invalid category, a
\* candidate that is no AI tool and a failed write are pairwise
\* distinguishable: two calls refused for different reasons return
\* different errors.
C26_ReasonsDistinguishable ==
    \A t, u \in Tasks :
        (Refused(t) /\ Refused(u) /\ Reason(t) # Reason(u))
            => task[t].result.error # task[u].result.error

\* what the code does: one message per place of return, and every refusal
\* of the commit, whatever its reason, has the same one
C26_ThreeMessages ==
    \A t \in Tasks :
        Refused(t) =>
            /\ task[t].result.tool = Undefined
            /\ task[t].result.error =
                  IF task[t].cls.kind = "notAITool"
                  THEN "Not identified as an AI tool"
                  ELSE IF task[t].cls.kind = "tool"
                  THEN "Failed to add to database"
                  ELSE IF Reason(t) = "DuplicateEntity"
                  THEN "Tool already exists in database"
                  ELSE "Could not access the website"

\* one call refused for its category, the other for the failed write: the
\* two results are equal
C26_Witness ==
    /\ Refused("r1") /\ Refused("r2")
    /\ Reason("r1") = "InvalidCategory" /\ Reason("r2") = "PersistenceFailure"
    /\ task["r1"].result = task["r2"].result

(***************************************************************************)
(* Properties of the discovery log                                         *)
(***************************************************************************)

\* the log has one record for every commit, and the tool of a call that
\* reported success has its record
OneRecordPerCommit ==
    /\ Len(discovered) = commits
    /\ (UrlDone /\ task["r1"].result.success) =>
          /\ discovered # <<>>
          /\ Last(discovered).id = task["r1"].result.tool
          /\ Last(discovered).category = task["r1"].cls.category
    /\ (task["r1"].op = "scrape") =>
          Len(discovered) = Len(task["r1"].before.log) + task["r1"].counts.added

\* C27: every discovery that commits a tool appends exactly one Discovery
\* Record: after any sequence of discovery operations the number of records
\* of the log equals the number of successful commits, and each result with
\* success = true has its record in the log.
C27_EveryCommitIsLogged == OneRecordPerCommit

\* what the code does: a log that can be read and written gets its record
\* with every commit; one that cannot gets none, and the commits succeed
\* all the same
C27_LoggedWhenLogUsable ==
    IF logFile = "ok" THEN OneRecordPerCommit ELSE discovered = <<>>

\* a call has committed its tool and reported success, and the log is empty
C27_Witness ==
    /\ UrlDone /\ task["r1"].result.success
    /\ commits = 1
    /\ toolsFile.totalTools = SumLens(InitialCategories, CatKeys) + 1
    /\ logFile = "unusable"
    /\ discovered = <<>>

(***************************************************************************)
(* Properties of two concurrent discoveries of one URL                     *)
(***************************************************************************)

\* both slots hold an answered discoverToolByUrl call for the same URL, and
\* nothing was committed between the two calls: both took their snapshot of
\* the ids from the same document
SameUrlTwice ==
    /\ \A t \in Tasks : task[t].op = "url" /\ task[t].pc = "done"
    /\ task["r1"].arg = task["r2"].arg
    /\ task["r1"].before.file = task["r2"].before.file

AddedAtMostOnce ==
    /\ ~(task["r1"].result.success /\ task["r2"].result.success)
    /\ ToolCount(toolsFile) <= ToolCount(task["r1"].before.file) + 1

\* C28: for any interleaving of two concurrent discoverToolByUrl calls for
\* the same URL, both having taken their snapshot before either commits, the
\* tool is added to the catalog at most once and at most one of the two
\* calls returns success = true.
C28_SameUrlAddedOnce ==
    SameUrlTwice => AddedAtMostOnce

\* what the code does: the second commit is refused when both calls reach
\* it with the same id and category, as they do without the completion
\* service
C28_SameEntryAddedOnce ==
    /\ (SameUrlTwice /\ task["r1"].cls = task["r2"].cls) => AddedAtMostOnce
    /\ (SameUrlTwice /\ ~groqKey) => AddedAtMostOnce

\* the two calls overlapped, the completion put the page into design for
\* one and into coding_assistance for the other, under the same id: both
\* report success, and the catalog has two more tools
C28_Witness ==
    /\ SameUrlTwice /\ ~task["r1"].alone
    /\ task["r1"].result.success /\ task["r2"].result.success
    /\ task["r1"].cls.id = task["r2"].cls.id
    /\ task["r1"].cls.category # task["r2"].cls.category
    /\ ToolCount(toolsFile) = ToolCount(task["r1"].before.file) + 2

\* the last request to the engine was answered by the keyword strategy:
\* no category was supplied and the AI-backed strategy gave no result
KeywordAnswer ==
    /\ rec.called
    /\ rec.category = NoCategory
    /\ ~rec.result.threw
    /\ rec.result.source \in {"fallback", "default"}

\* the category analyzeIntent's pattern scoring selects for the query of
\* the last request, "none" when no pattern scores
PatternCategory ==
    LET q == trim(toLowerCase(rec.query))
        best == bestPattern(q, splitWS(q))
    IN  IF best.index = 0 THEN "none" ELSE intentMap[best.index].category

\* the category getFallbackRecommendation scores best for the query of the
\* last request
FallbackCategory == bestCategoryKey(engineTools, toLowerCase(rec.query))

\* the categories of the highest positive keyword score for the query of the
\* last request
TopCategories ==
    LET q == toLowerCase(rec.query)
    IN  {k \in CatKeys :
            /\ categoryScore(engineTools, k, q) > 0
            /\ \A k2 \in CatKeys :
                  categoryScore(engineTools, k2, q) <= categoryScore(engineTools, k, q)}

\* the tools of category k the budget of the last request admits
Eligible(k) ==
    SelectSeq(engineTools.categories[k],
              LAMBDA t : rec.budget = "free" => t.pricing.free = TRUE)

\* the answer's tools are tools of category k that the budget admits, each
\* once, easiest first, three of them or all when fewer are eligible
ToolsOfCategory(k) ==
    LET tools == rec.result.tools
        el == Eligible(k)
    IN  /\ Len(tools) = IF Len(el) < 3 THEN Len(el) ELSE 3
        /\ \A i \in 1..Len(tools) : \E j \in 1..Len(el) : tools[i] = el[j]
        /\ \A i, j \in 1..Len(tools) : i # j => tools[i].id # tools[j].id
        /\ \A i \in 1..Len(tools) : \A j \in 1..Len(el) :
              easeOr3(el[j]) > easeOr3(tools[i])
                  => \E h \in 1..Len(tools) : tools[h] = el[j]
        /\ \A i, j \in 1..Len(tools) :
              i < j => easeOr3(tools[i]) >= easeOr3(tools[j])

AnswerCategory ==
    IF rec.result.source = "ai_category" THEN rec.category
    ELSE IF rec.result.source = "fallback"
    THEN bestCategoryKey(engineTools, toLowerCase(rec.query))
    ELSE "none"

\* some category holds a tool the budget of the last request admits
OthersEligible ==
    \E k \in CatKeys : \E i \in 1..Len(engineTools.categories[k]) :
        rec.budget = "free" => engineTools.categories[k][i].pricing.free = TRUE

\* C31: a category with no tools is never the category of a
\* recommendation, whether the caller supplied it or the keyword scoring
\* chose it
C31_EmptyCategoryExcluded ==
    (rec.called /\ ~rec.result.threw /\ AnswerCategory # "none")
        => engineTools.categories[AnswerCategory] # <<>>

\* what holds: an answer taken from an empty category carries no tool, and
\* an answer of the completion (source 'gemini') always carries one
C31_EmptyCategoryGivesNoTools ==
    (rec.called /\ ~rec.result.threw)
        => /\ (AnswerCategory # "none" /\ engineTools.categories[AnswerCategory] = <<>>)
                 => rec.result.tools = <<>>
           /\ rec.result.source = "gemini" => rec.result.tools # <<>>

\* the keyword scoring chose the empty category and the answer is empty
\* while another category holds eligible tools
C31_Witness ==
    /\ rec.called /\ ~rec.result.threw
    /\ rec.category = NoCategory
    /\ rec.result.source = "fallback"
    /\ engineTools.categories[AnswerCategory] = <<>>
    /\ rec.result.tools = <<>>
    /\ OthersEligible

\* the last request was answered by the standalone-budget shortcut: the
\* show-tools outcome for a standalone budget answer that the direct
\* budget detection does not cover, with originalQuery taken from the
\* history
ShortcutTaken ==
    /\ chat.called
    /\ ~BudgetAndTool
    /\ isStandaloneBudgetAnswer(trim(toLowerCase(chat.message)))
    /\ chat.result.type = "direct_recommendation"
    /\ chat.groq = "shortcut"
    /\ chat.history # <<>>

\* the type the policy gives the last assistant turn of the history of the
\* last request.  getGroqResponse types a text 'tool_request' when it
\* mentions both budgets and 'prefer' or 'would you'; getSmartResponse asks
\* for 'prefer'; the rule-based responder types only its budget question so,
\* which holds these words: a turn that groqType calls 'question' was typed
\* 'question' by whichever strategy produced it
LastAssistantType ==
    LET lastA == lastOf(chat.history, "assistant")
    IN  IF lastA = <<>> THEN "none" ELSE groqType(lastA[1].content)

\* C32: the standalone-budget shortcut is taken only after an assistant
\* turn the policy itself produced with type 'tool_request'; a turn it
\* produced with type 'question' never enables the shortcut
C32_QuestionNeverEnablesShortcut ==
    ShortcutTaken => LastAssistantType = "tool_request"

\* what holds: the shortcut is taken only when the last assistant turn of
\* the history mentions both 'free' and 'premium', whatever type it had
C32_ShortcutNeedsBothBudgetWords ==
    ShortcutTaken => askedBudget(chat.history)

\* the shortcut was taken after a completion that lists a free and a premium
\* tool without asking anything, which getGroqResponse types 'question'
C32_Witness ==
    /\ ShortcutTaken
    /\ lastOf(chat.history, "assistant") = <<Turn("assistant", ListsPlans)>>
    /\ LastAssistantType = "question"
    /\ chat.result.originalQuery = lastOf(chat.history, "user")[1].content

\* the outcomes handleChat can give the last message with the history hist
OutcomesWith(hist) ==
    {handleChat(chat.message, hist, groqOut, geminiOut).result :
        groqOut \in IF groqKey THEN Completions ELSE {NoCompletion},
        geminiOut \in IF geminiKey THEN Completions ELSE {NoCompletion}}

\* C33: the conversation decision depends only on the message and the last
\* 8 entries of the history: the outcome of a request is an outcome of the
\* same message with the history cut to its last 8 entries, which agrees
\* with the whole history on these entries (whether the standalone-budget
\* shortcut fires, the originalQuery it reports, the rule-based reply)
C33_OnlyLastEightEntries ==
    chat.called => chat.result \in OutcomesWith(lastWindow(chat.history))

\* what holds: the outcome depends on the history only through its last
\* assistant turn and its last user turn, wherever they stand
C33_OnlyLastTurnOfEachRole ==
    chat.called =>
        chat.result \in OutcomesWith(lastOf(chat.history, "assistant")
                                     \o lastOf(chat.history, "user"))

\* the shortcut fired on a budget question that is the ninth entry from
\* the end of the history
C33_Witness ==
    /\ ShortcutTaken
    /\ Len(chat.history) = Window + 1
    /\ chat.history[1] = Turn("assistant", AsksBudget)
    /\ lastOf(lastWindow(chat.history), "assistant") = <<>>
    /\ chat.result \notin OutcomesWith(lastWindow(chat.history))

\* the page request of the batch's candidate has just failed: the batch,
\* at its await of analyzeToolUrl, stays at the candidate without page data
FetchFailed ==
    /\ task["r1"].op = "scrape" /\ task["r1"].pc = "sfetch"
    /\ task["r1"].op' = "scrape"
    /\ task["r1"].pc' = "sclassify"
    /\ task["r1"].idx' = task["r1"].idx
    /\ ~task["r1"].detailed'

\* every candidate of the returned batch is in one of the three counters
AllCounted ==
    LET c == task["r1"].counts
    IN  c.added + c.skipped + c.errors = c.discovered

\* C34: every candidate of runFullScrape whose fetch, classification or
\* commit step fails increments the errors counter: the counter grows when
\* a candidate's page request fails, and without a completion service, where
\* no candidate is set aside as 'not an AI tool', every candidate that is
\* neither skipped nor added is counted as an error
C34_FailuresCounted ==
    /\ [][FetchFailed => task["r1"].counts.errors' > task["r1"].counts.errors]_vars
    /\ []((BatchComplete /\ ~groqKey) => AllCounted)

\* what holds: the errors counter grows only in the loop's catch block,
\* which in a batch is reached only through an entry without a name
C34_ErrorsOnlyFromExceptions ==
    [][task["r1"].counts.errors' > task["r1"].counts.errors
          => /\ task["r1"].pc = "sclassify"
             /\ \E tl \in AllTools(toolsFile') : tl.name = Undefined]_vars

\* a batch without a completion service returned with a candidate that was
\* neither added nor skipped, its commit having failed, and with no error
\* counted
C34_Witness ==
    /\ BatchComplete /\ ~groqKey
    /\ task["r1"].counts.discovered = Len(Listing)
    /\ task["r1"].counts.errors = 0
    /\ task["r1"].counts.added + task["r1"].counts.skipped < Len(Listing)

\* the tools the catalog document gained since the batch of slot r1 was
\* called
CommittedByBatch ==
    ToolCount(toolsFile) - ToolCount(task["r1"].before.file)

\* C35: each candidate of the listing is counted in at most one of added,
\* skipped and errors: when the batch returns, added + skipped + errors is
\* at most discovered, and added is the number of tools the batch committed
C35_CountedAtMostOnce ==
    BatchComplete =>
        LET c == task["r1"].counts
        IN  /\ c.added + c.skipped + c.errors <= c.discovered
            /\ c.added = CommittedByBatch

\* what holds: added is the number of tools the batch committed, and the
\* candidates added or skipped are no more than the listing's
C35_AddedIsCommitted ==
    BatchComplete =>
        LET c == task["r1"].counts
        IN  /\ c.added = CommittedByBatch
            /\ c.added + c.skipped <= c.discovered
            /\ c.errors <= c.added

\* a batch returned having counted one candidate twice: its entry, without
\* a name, was committed and counted as added, and the exception of the
\* next statement counted it as an error
C35_Witness ==
    /\ BatchComplete
    /\ task["r1"].counts.errors > 0
    /\ task["r1"].counts.added + task["r1"].counts.skipped
          + task["r1"].counts.errors > task["r1"].counts.discovered
    /\ task["r1"].counts.added = CommittedByBatch
    /\ \E tl \in AllTools(toolsFile) : tl.name = Undefined

\* the batch of slot r1 issues the page request of a candidate
IssuesFetch ==
    /\ task["r1"].op' = "scrape"
    /\ task["r1"].pc' = "sfetch"
    /\ task["r1"] # task["r1"]'

\* C36: the fixed delay elapses between any two consecutive external page
\* fetches of a batch: the request for a candidate's page is issued when the
\* delay has elapsed, never straight after the directory listing's fetch and
\* never straight after a candidate whose processing failed
C36_DelayBeforeEveryFetch ==
    [][IssuesFetch => task["r1"].pc = "sleep"]_vars

\* what holds: a candidate's page is requested after the delay, except
\* straight after the listing's fetch and after a candidate that threw
C36_DelayUnlessFirstOrThrown ==
    [][IssuesFetch =>
          \/ task["r1"].pc = "sleep"
          \/ task["r1"].pc = "listing"
          \/ task["r1"].counts.errors' > task["r1"].counts.errors]_vars

\* the batch awaits the page of a candidate, every earlier candidate having
\* been skipped: nothing was awaited since the listing's fetch returned
C36_Witness ==
    /\ task["r1"].op = "scrape" /\ task["r1"].pc = "sfetch"
    /\ task["r1"].counts.discovered = Len(Listing)
    /\ task["r1"].counts.skipped = task["r1"].idx - 1
    /\ task["r1"].counts.added = 0 /\ task["r1"].counts.errors = 0

\* C37: getRecommendations and handleChat eventually return even when a
\* completion service never answers: a suspended request can always be
\* resumed, by the service's answer or by a timeout of the call, so that
\* no request is left at an await that nothing ends
C37_SuspendedCallResumes ==
    /\ RecSuspended => ENABLED GeminiReturn
    /\ ChatSuspended => ENABLED (GroqChatReturn \/ GeminiChatReturn)

\* the same as a property of behaviours: every suspended request returns
C37_EventuallyReturns ==
    /\ RecSuspended ~> (rec # NoRec /\ rec.called)
    /\ ChatSuspended ~> (chat # NoRec /\ chat.called)

\* what holds: a request returns when every service it calls answers
C37_ReturnsWhenAnswered ==
    /\ (RecSuspended /\ rec.fate = "answers") ~> (rec # NoRec /\ rec.called)
    /\ (ChatSuspended /\ chat.fate = "answers")
          ~> (chat # NoRec /\ (chat.called \/ chat.fate = "never"))

\* a chat request is suspended at Gemini's call, which Groq's exception led
\* to and which will never answer
C37_Witness ==
    /\ ChatSuspended
    /\ chat.at = "gemini" /\ chat.fate = "never"
    /\ groqKey /\ geminiKey

\* the matcher accepted a pattern for the message
AcceptedPattern ==
    /\ intent.called /\ intent.matched /\ ~intent.isGuidance
    /\ intent.category \notin {"mixed", "null"}

\* the pattern the matcher accepted
ThePattern ==
    LET q == trim(toLowerCase(query))
    IN  intentMap[bestPattern(q, splitWS(q)).index]

\* the priority ids of pattern p that are ids of catalog tools, in the
\* pattern's order
ResolvedPriority(p) ==
    LET ids == {tl.id : tl \in AllTools(engineTools)}
    IN  SelectSeq(p.priority, LAMBDA id : id \in ids)

\* the ids of the tools of the category of p that are no resolved priority
\* id
RestIds(p) ==
    {engineTools.categories[p.category][i].id :
        i \in 1..Len(engineTools.categories[p.category])}
    \ Range(ResolvedPriority(p))

\* the ease of the tool with that id among tools, 3 when the entry has none
RestEase(tools, id) ==
    easeOr3(tools[CHOOSE i \in 1..Len(tools) : tools[i].id = id])

\* C38: for an accepted pattern the tools are the pattern's priority ids
\* that resolve to catalog tools, in priority order and before any other
\* tool, followed by the remaining tools of the pattern's category in
\* descending ease (absent ease counting as 3), the easiest being kept; no
\* id twice, at most 6 tools, unresolved priority ids skipped
C38_PriorityThenCategoryByEase ==
    (AcceptedPattern /\ intent.category \in CatKeys) =>
        LET T == intent.tools
            p == ThePattern
            prio == ResolvedPriority(p)
            rest == RestIds(p)
            tools == engineTools.categories[p.category]
            ease == [id \in rest |-> RestEase(tools, id)]
            n == Len(prio)
        IN  /\ p.category = intent.category
            /\ Len(T) <= 6
            /\ \A i, j \in 1..Len(T) : i # j => T[i] # T[j]
            /\ Len(T) >= n /\ SubSeq(T, 1, n) = prio
            /\ \A i \in (n + 1)..Len(T) : T[i] \in rest
            /\ \A i, j \in (n + 1)..Len(T) : i < j => ease[T[i]] >= ease[T[j]]
            /\ \A id \in rest \ Range(T) :
                  /\ Len(T) = 6
                  /\ \A i \in (n + 1)..Len(T) : ease[id] <= ease[T[i]]

\* an accepted design pattern with a priority id that resolves and one that
\* does not, six tools returned and a tool of the category left out, a
\* tool without ease among those returned
C38_Witness ==
    /\ AcceptedPattern /\ intent.category = "design"
    /\ Len(intent.tools) = 6
    /\ ResolvedPriority(ThePattern) # <<>>
    /\ Len(ResolvedPriority(ThePattern)) < Len(ThePattern.priority)
    /\ RestIds(ThePattern) \ Range(intent.tools) # {}
    /\ \E tl \in Range(engineTools.categories["design"]) :
          /\ tl.ease = 0
          /\ tl.id \in Range(intent.tools) \cap RestIds(ThePattern)

\* the score of pattern i for the lower-cased message q with the words
\* words: 20 for each of its phrases that q includes, 5 for each word of
\* each of its phrases that is a word of q
PatternPoints(i, q, words) ==
    LET phrases == intentMap[i].intents
        ofQuery == Range(words)
        hits(j) == LET ws == splitSpace(phrases[j])
                   IN  {<<j, k>> : k \in {k \in 1..Len(ws) : ws[k] \in ofQuery}}
    IN  20 * Cardinality({j \in 1..Len(phrases) : includes(q, phrases[j])})
        + 5 * Cardinality(UNION {hits(j) : j \in 1..Len(phrases)})

\* C39: where no guidance result is returned, analyzeIntent scores each
\* pattern 20 per intent phrase the lower-cased query includes plus 5 per
\* word of an intent phrase that is a word of the query, selects the
\* pattern of the highest score, the earliest in the table on a tie, and
\* accepts it exactly when its score is at least 5, with confidence
\* min(score / 20, 1) (in twentieths: min(score, 20))
C39_PatternScoring ==
    (intent.called /\ ~intent.isGuidance) =>
        LET q == trim(toLowerCase(query))
            words == splitWS(q)
            pts == [i \in 1..Len(intentMap) |-> PatternPoints(i, q, words)]
            top == CHOOSE i \in 1..Len(intentMap) :
                      /\ \A j \in 1..Len(intentMap) : pts[j] <= pts[i]
                      /\ \A j \in 1..(i - 1) : pts[j] < pts[i]
        IN  /\ intent.score = pts[top]
            /\ IF pts[top] >= 5
               THEN /\ intent.matched
                    /\ intent.category = intentMap[top].category
                    /\ intent.confidence20 = (IF pts[top] < 20 THEN pts[top] ELSE 20)
               ELSE /\ intent.category \in {"mixed", "null"}
                    /\ intent.confidence20 \in {0, 6}

\* the message 'edit' gives 'edit photo' and 'edit video' 5 points each:
\* the earlier pattern, image editing, is accepted with confidence 5/20
C39_Witness ==
    /\ intent.called /\ ~intent.isGuidance
    /\ query = <<"e","d","i","t">>
    /\ intent.matched
    /\ intent.category = "image_editing"
    /\ intent.score = 5 /\ intent.confidence20 = 5
    /\ Cardinality({i \in 1..Len(intentMap) :
                       PatternPoints(i, query, <<query>>) = 5}) = 2

\* the lower-cased message
LowerQuery == trim(toLowerCase(query))

\* the message holds a guidance signal
HasSignal == \E i \in 1..Len(guidanceSignals) : includes(LowerQuery, guidanceSignals[i])

\* the positions, in catalog order, of the tools whose name or id the
\* message holds
NamedIn(flat) ==
    {i \in 1..Len(flat) :
        \/ flat[i].name # Undefined /\ includes(LowerQuery, toLowerCase(flat[i].name))
        \/ includes(LowerQuery, toLowerCase(flat[i].id))}

\* the result is the guidance result for the tool at position i
GuidanceFor(flat, i) ==
    /\ ~intent.threw
    /\ intent.matched /\ intent.isGuidance
    /\ intent.confidence20 = 20
    /\ intent.category = flat[i].categoryKey
    /\ intent.tools = <<flat[i].id>>

\* C40: a message with a guidance signal and the name or id of a known tool
\* gets a guidance result with confidence 1.0 whose tools are exactly that
\* tool, the first in catalog order when several are named, whatever the
\* patterns score
C40_GuidanceNamesOneTool ==
    LET flat == flattenTools(engineTools)
        named == NamedIn(flat)
    IN  (intent.called /\ HasSignal /\ named # {}) =>
            GuidanceFor(flat, CHOOSE i \in named : \A j \in named : i <= j)

\* what the code does: the same, when every catalog entry up to the first
\* tool named by name has a name; a TypeError otherwise, also when the
\* entry without a name is the one whose id the message holds
C40_GuidanceUnlessNameless ==
    LET flat == flattenTools(engineTools)
        nameless == {i \in 1..Len(flat) : flat[i].name = Undefined}
        named == NamedIn(flat) \ nameless
        first == CHOOSE i \in named : \A j \in named : i <= j
    IN  (intent.called /\ HasSignal /\ NamedIn(flat) # {}) =>
            IF named # {} /\ \A i \in nameless : first < i
            THEN GuidanceFor(flat, first)
            ELSE intent.threw

\* 'how to use canva cursor logo' is not a message of three pieces; the
\* message 'how to use canva Cursor' names two tools and gets Cursor, the
\* earlier in the catalog, and 'logo' would score: here a message with the
\* signal, two tools, answered with the first of them
C40_Witness ==
    LET flat == flattenTools(engineTools)
    IN  /\ intent.called /\ HasSignal
        /\ query = <<"h","o","w"," ","t","o"," ","u","s","e"," ","c","a","n","v","a"," ","C","u","r","s","o","r">>
        /\ Cardinality(NamedIn(flat)) = 2
        /\ GuidanceFor(flat, 2)
        /\ intent.tools = <<cursor.id>>

\* the pattern score does not matter: 'how to use canva logo' scores for
\* the logo pattern and still gets the guidance result for Canva
C40_WitnessScored ==
    /\ intent.called /\ intent.isGuidance
    /\ query = <<"h","o","w"," ","t","o"," ","u","s","e"," ","c","a","n","v","a"," ","l","o","g","o">>
    /\ bestPattern(LowerQuery, splitWS(LowerQuery)).score >= 20
    /\ intent.tools = <<canva.id>>
====
